---- MODULE Spec2Model ----
(***************************************************************************)
(* Agent orchestration subsystem of the AI Advisor Agent backend:          *)
(*   - the tool dispatch boundary (agent/tools/executor.ts, executeTool)   *)
(*   - the conversation loop (agent/loop.ts, runAgent)                     *)
(*   - the task store and the meeting-scheduling workflow                  *)
(*     (services/tasks, workflows/meeting-scheduling.ts) driven by the     *)
(*     email poller (jobs/email-poller.ts)                                 *)
(*   - the streaming turn (agent/loop.ts, runAgentStream)                  *)
(*   - the proactive evaluator (evaluateEvent, processEvent)               *)
(*   - the text chunker (chunkText) and ingestion (services/rag.ts)        *)
(*   - the email poller (jobs/email-poller.ts)                             *)
(* Specifications: SpecTool (dispatch), SpecLoop / SpecLoopFair (one turn),*)
(* SpecStream (a turn and its streamed replay), SpecEval (evaluator),      *)
(* SpecChunk (chunker), SpecRag (ingestion), SpecSearch (searchRAG),       *)
(* SpecReingest (a re-ingestion, statement by statement),                  *)
(* SpecPoller / SpecPollerFair (poll cycles), SpecWF (concurrent flows),   *)
(* SpecSeq (one flow at a time).                                           *)
(***************************************************************************)
EXTENDS Integers, Sequences, FiniteSets, TLC

\* ------------------------------------------------------------------ bounds
MaxIter == 2        \* largest maxIterations a turn is started with
MaxCalls == 2       \* largest number of tool calls dispatched in one turn
MaxTasks == 2       \* task ids that can be created
MaxOps == 3         \* operations (start / poll / cancel) begun in one run
NumFlows == 2       \* concurrently running async flows
MaxInstructions == 1 \* active instructions a user can have
MaxReplyLen == 4    \* tokens in the evaluation model's reply
MaxTextLen == 5     \* characters of a text handed to chunkText
MaxPasses == 8      \* passes of chunkText's loop that are followed
MaxPieces == 2      \* chunks of one ingested document
MaxIngests == 3     \* ingestions followed
MaxRows == 2        \* rows of the table searchRAG reads
MaxMail == 2        \* emails the mail source receives

\* ------------------------------------------------------------- tool dispatch

\* Keys of the toolImplementations object literal.
OwnTools ==
  {"send_email", "read_emails", "list_calendar_events",
   "find_calendar_availability", "create_calendar_event",
   "find_hubspot_contact", "create_hubspot_contact", "create_hubspot_note",
   "search_rag", "store_task", "update_task",
   "add_instruction", "list_instructions", "remove_instruction"}

\* Property names every object literal inherits from Object.prototype.
InheritedNames ==
  {"constructor", "toString", "toLocaleString", "valueOf", "hasOwnProperty",
   "isPrototypeOf", "propertyIsEnumerable", "__proto__"}

\* Names no object has.
AbsentNames == {"no_such_tool", ""}

ToolNames == OwnTools \cup InheritedNames \cup AbsentNames

\* Shapes of the args value handed to executeTool.
ArgValues == {"undefined", "null", "primitive", "empty_object", "valid_object"}

\* Outcome of the collaborator a tool calls: a value, its "nothing" value
\* (null, not connected, not found), or an exception.
ServiceOutcomes == {"ok", "null", "throws"}

Success == [outcome |-> "returned", success |-> "true", payload |-> "data"]
Failure == [outcome |-> "returned", success |-> "false", payload |-> "error"]
Threw == [outcome |-> "threw", success |-> "absent", payload |-> "none"]
\* A returned value that is not a ToolResult (no success, data or error field).
NotAToolResult == [outcome |-> "returned", success |-> "absent", payload |-> "none"]
NoResult == [outcome |-> "none", success |-> "absent", payload |-> "none"]

\* Tools that check for null only where they read.
NullIsFailureOnReads == {"find_hubspot_contact", "update_task"}

\* Tools whose collaborator's null / not-connected / not-found return is
\* answered with {success:false, error}.
NullIsFailure ==
  {"send_email", "create_calendar_event", "find_hubspot_contact",
   "create_hubspot_contact", "create_hubspot_note", "update_task"}

\* Tools that call a method on a required argument field after the
\* collaborator returned (args.instruction.substring, args.content.substring).
DerefsRequiredField == {"add_instruction", "create_hubspot_note"}

\* One entry of toolImplementations: every body is wrapped in try/catch.
ToolImplementation(name, args, svc) ==
  IF args \in {"undefined", "null"} THEN Failure          \* TypeError on args.x, caught
  ELSE IF svc = "throws" THEN Failure                      \* caught by the tool
  ELSE IF svc = "null" /\ name \in NullIsFailure THEN Failure
  ELSE IF args # "valid_object" /\ name \in DerefsRequiredField THEN Failure
  ELSE Success

\* toolImplementations[toolName]: own property, else the prototype chain.
LookupImplementation(toolName) ==
  IF toolName \in OwnTools THEN "tool"
  ELSE IF toolName = "__proto__" THEN "object"
  ELSE IF toolName \in InheritedNames THEN "builtin"
  ELSE "undefined"

\* An Object.prototype function called as implementation(args, context),
\* i.e. with this = undefined; runs inside executeTool's try block.
CallBuiltin(toolName, args) ==
  CASE toolName = "constructor" -> NotAToolResult          \* Object(args) returns an object
    [] toolName = "toString" -> NotAToolResult             \* "[object Undefined]"
    [] toolName = "isPrototypeOf" ->
         IF args \in {"empty_object", "valid_object"}
         THEN Failure                                      \* ToObject(undefined) throws, caught
         ELSE NotAToolResult                               \* returns the boolean false
    [] OTHER -> Failure                                    \* TypeError, caught

ExecuteTool(toolName, args, svc) ==
  LET implementation == LookupImplementation(toolName) IN
  IF implementation = "undefined" THEN Failure             \* Unknown tool
  ELSE IF args = "undefined" THEN Threw                    \* JSON.stringify(args).substring
  ELSE CASE implementation = "tool" -> ToolImplementation(toolName, args, svc)
         [] implementation = "builtin" -> CallBuiltin(toolName, args)
         [] OTHER -> Failure                               \* not callable: TypeError, caught

\* --------------------------------------------------------- conversation loop

AGENT_SYSTEM_PROMPT == "system_prompt"
FallbackResponse == "I apologize, but I was unable to complete the request."

\* JSON.parse(toolCall.arguments) with the catch that substitutes {}.
ParseArguments(raw) ==
  CASE raw = "{\"to\":\"a\"}" -> "valid_object"
    [] raw = "{}" -> "empty_object"
    [] raw = "null" -> "null"
    [] raw = "5" -> "primitive"
    [] OTHER -> "empty_object"                             \* SyntaxError caught: args = {}

\* (name, arguments) pairs the model is let to request in a turn.
RequestedCalls ==
  { [name |-> "send_email", arguments |-> "{\"to\":\"a\"}"],
    [name |-> "constructor", arguments |-> "{not json"],
    [name |-> "no_such_tool", arguments |-> "null"] }

\* tool_calls of a reply: absent (null), or a list of at most MaxCalls calls.
CallLists == UNION { [1..n -> RequestedCalls] : n \in 0..MaxCalls }
NoCalls == [present |-> FALSE, calls |-> <<>>]
ReplyToolCalls == {NoCalls} \cup { [present |-> TRUE, calls |-> c] : c \in CallLists }

\* The replies that ask for at most n tool calls: a turn dispatches at most
\* MaxCalls calls in all.
RepliesWithin(n) == { r \in ReplyToolCalls : Len(r.calls) <= n }

\* The tool_calls array as the provider returns it in reply number n:
\* {id, type, function: {name, arguments}} with ids unique in the turn.
ProviderToolCalls(replyCalls, n) ==
  [present |-> replyCalls.present,
   calls |-> [i \in 1..Len(replyCalls.calls) |->
                [id |-> n * (MaxCalls + 2) + i, function |-> replyCalls.calls[i]]]]

\* content of a reply: null or text.
ReplyContents == {"null", "text"}

\* assistantMessage.content || ''
ContentOrEmpty(content) == IF content = "null" THEN "" ELSE content

\* extractToolCalls: null when the reply has no tool_calls, else the mapped list.
ExtractToolCalls(message) ==
  IF ~message.tool_calls.present THEN NoCalls
  ELSE [present |-> TRUE,
        calls |-> [i \in 1..Len(message.tool_calls.calls) |->
                     [id |-> message.tool_calls.calls[i].id,
                      name |-> message.tool_calls.calls[i].function.name,
                      arguments |-> message.tool_calls.calls[i].function.arguments]]]

\* A test that forgets the empty list.
NoToolCallsOnlyNull(extracted) == ~extracted.present

\* !toolCalls || toolCalls.length === 0
NoToolCalls(extracted) == ~extracted.present \/ Len(extracted.calls) = 0

\* A loop test that is off by one.
LoopConditionInclusive(i, max) == i <= max

\* while (iteration < maxIterations)
LoopCondition(i, max) == i < max

\* A log that records successful calls only.
RecordExecutionIfData(log, name, args, result) ==
  IF result.payload = "data"
  THEN Append(log, [name |-> name, args |-> args, result |-> result.payload])
  ELSE log

\* executedToolCalls.push({ name, args, result: result.data || result.error })
RecordExecution(log, name, args, result) ==
  Append(log, [name |-> name, args |-> args, result |-> result.payload])

Message(role, content, toolCalls, toolCallId) ==
  [role |-> role, content |-> content, toolCalls |-> toolCalls, toolCallId |-> toolCallId]

\* Caller-supplied histories (may carry system messages of their own).
Histories ==
  { << Message("user", "hi", NoCalls, 0) >>,
    << Message("system", "other", NoCalls, 0), Message("user", "hi", NoCalls, 0) >>,
    << Message("user", "hi", NoCalls, 0), Message("system", "other", NoCalls, 0) >> }

\* A history handed on as it is, system messages included.
WithoutSystemKeepsAll(history) == history

\* messages.filter((m) => m.role !== 'system')
WithoutSystem(history) == SelectSeq(history, LAMBDA m : m.role # "system")

\* Last assistant message of the conversation, or "none".
LastAssistantContent(msgs) ==
  LET idx == { i \in 1..Len(msgs) : msgs[i].role = "assistant" } IN
  IF idx = {} THEN "none"
  ELSE msgs[CHOOSE i \in idx : \A j \in idx : j <= i].content

\* ------------------------------------------------------------------- state

VARIABLES
  toolName,     \* executeTool: the name asked for
  toolArgs,     \* executeTool: the shape of args
  toolSvc,      \* outcome of the service call the tool makes
  toolResult    \* what executeTool produced

toolVars == <<toolName, toolArgs, toolSvc, toolResult>>

VARIABLES
  lpc,                    \* position of runAgent: "start", "model", "awaiting_model",
                          \* "tools", "awaiting_tool", "returned", "threw"
  messages,               \* the caller's history, the first argument of runAgent
  maxIterations,          \* config.maxIterations
  iteration,              \* loop counter
  conversationMessages,   \* the message list sent to the model
  executedToolCalls,      \* the turn's execution log
  toolCalls,              \* tool calls of the reply being processed
  callIndex,              \* next tool call of toolCalls to dispatch
  agentResult,            \* value returned by runAgent
  modelCalls,             \* number of openai.chat.completions.create calls made
  dispatched,             \* history of executeTool invocations, in order
  firstReply,             \* the first reply of the turn
  replies,                \* the model's replies of the turn, in order
  results,                \* the values executeTool returned in the turn, in order
  collaborators,          \* the outcome of the service call of each dispatch, in order
  inFlight                \* the awaited calls that have not settled yet

loopVars == <<lpc, messages, maxIterations, iteration, conversationMessages, executedToolCalls,
              toolCalls, callIndex, agentResult, modelCalls, dispatched, firstReply,
              replies, results, collaborators, inFlight>>

VARIABLES
  spc,                    \* position of the generator runAgentStream: the yield it is
                          \* suspended at, "executing", "finished", "threw" or "stopped"
  streamIteration,        \* its loop counter
  streamMessages,         \* its conversationMessages
  streamExecuted,         \* its executedToolCalls
  streamToolCalls,        \* tool calls of the reply it is processing
  streamCallIndex,        \* next tool call of streamToolCalls
  events,                 \* the events yielded so far
  streamModelCalls,       \* number of model calls it made
  streamDispatched,       \* history of its executeTool invocations, in order
  streamInFlight          \* its executeTool calls that have not settled yet

streamVars == <<spc, streamIteration, streamMessages, streamExecuted, streamToolCalls,
                streamCallIndex, events, streamModelCalls, streamDispatched, streamInFlight>>

VARIABLES
  tasks,        \* the task table: id -> row
  nextTaskId,   \* next id the table hands out
  byUpdatedAt,  \* the task ids in ascending order of the rows' updatedAt
  flow,         \* the async flows: position and locals of each
  emailsSent,   \* per task: meeting-request e-mails sent
  eventsCreated,    \* per task: calendar events created
  notesCreated,     \* per task: CRM notes created
  confirmationsSent,\* per task: confirmation e-mails sent
  opsBegun      \* operations begun so far

wfVars == <<tasks, nextTaskId, byUpdatedAt, flow, emailsSent, eventsCreated, notesCreated,
            confirmationsSent, opsBegun>>
effectVars == <<emailsSent, eventsCreated, notesCreated, confirmationsSent>>

VARIABLES
  epc,               \* position of processEvent / evaluateEvent
  instructionCount,  \* number of active instructions of the user
  event,             \* type of the event being evaluated
  autoExecute,       \* third argument of processEvent
  modelReply,        \* outcome of the evaluation model call
  evaluation,        \* value returned by evaluateEvent
  evalModelCalls,    \* evaluation model calls made
  agentRuns,         \* runAgent invocations made by executeProactiveAction
  processResult      \* value returned by processEvent

evalVars == <<epc, instructionCount, event, autoExecute, modelReply, evaluation,
              evalModelCalls, agentRuns, processResult>>

VARIABLES
  cpc,            \* position of chunkText: "start", "loop", "returned"
  text,           \* its first argument
  chunkSize,      \* options.chunkSize
  chunkOverlap,   \* options.chunkOverlap
  minChunkSize,   \* options.minChunkSize
  startIndex,     \* start offset of the next window
  chunkIndex,     \* index of the next chunk
  chunks,         \* the chunks pushed so far; the result once returned
  passes          \* passes of the while loop made

chunkVars == <<cpc, text, chunkSize, chunkOverlap, minChunkSize, startIndex, chunkIndex,
               chunks, passes>>

VARIABLES
  embeddings,       \* the embeddings table: a set of chunk records
  uniqueSourceKey,  \* whether the table has a unique key on (source, sourceId)
  lastIngest,       \* the last ingestion: its arguments, whether generateEmbeddings
                    \* threw, and what it returned
  ingests           \* ingestions made

ragVars == <<embeddings, uniqueSourceKey, lastIngest, ingests>>

VARIABLES
  searchRows,     \* the embeddings table searchRAG reads, each row with its
                  \* similarity to the query
  searchCall,     \* the arguments of the searchRAG call and what failed in it
  searchResults   \* what searchRAG returned

searchVars == <<searchRows, searchCall, searchResults>>

VARIABLES
  rpc,                    \* position of the ingestion that runs: "idle", "embedded",
                          \* "insert", "returned"
  reingest,               \* that ingestion: its source, document, loop index and outcome
  observed                \* what the latest concurrent reader saw of that source

reingestVars == <<rpc, reingest, observed>>

VARIABLES
  ppc,                    \* position of the poller: "idle", "sync", "cache", "check"
  pollRemaining,          \* users of the cycle still to poll, the current one first
  mailbox,                \* per user, the emails the mail source holds, in order of arrival
  gmailHistoryId,         \* per user, the stored history id: the emails it covers
  pollBatch,              \* newEmails of the current user: indexes into the mailbox
  pollIndex,              \* position of the for loop in newEmails
  taskStatus,             \* per user, the status of the user's meeting task
  checkedEmails,          \* per user, the emails handed to findTaskWaitingForEmail
  lastResume              \* the latest checkForTaskReply: its user, email and outcome

pollerVars == <<ppc, pollRemaining, mailbox, gmailHistoryId, pollBatch, pollIndex, taskStatus,
                checkedEmails, lastResume>>

vars == <<toolVars, loopVars, streamVars, wfVars, evalVars, chunkVars, ragVars, searchVars, reingestVars, pollerVars>>

\* What each part of the program leaves alone.
outsideTool == <<loopVars, streamVars, wfVars, evalVars, chunkVars, ragVars, searchVars, reingestVars, pollerVars>>
outsideLoop == <<toolVars, streamVars, wfVars, evalVars, chunkVars, ragVars, searchVars, reingestVars, pollerVars>>
outsideStream == <<toolVars, loopVars, wfVars, evalVars, chunkVars, ragVars, searchVars, reingestVars, pollerVars>>
outsideWF == <<toolVars, loopVars, streamVars, evalVars, chunkVars, ragVars, searchVars, reingestVars, pollerVars>>
outsideEval == <<toolVars, loopVars, streamVars, wfVars, chunkVars, ragVars, searchVars, reingestVars, pollerVars>>
outsideChunk == <<toolVars, loopVars, streamVars, wfVars, evalVars, ragVars, searchVars, reingestVars, pollerVars>>
outsideRag == <<toolVars, loopVars, streamVars, wfVars, evalVars, chunkVars, searchVars, reingestVars, pollerVars>>
outsideSearch == <<toolVars, loopVars, streamVars, wfVars, evalVars, chunkVars, ragVars, reingestVars, pollerVars>>
outsideReingest == <<toolVars, loopVars, streamVars, wfVars, evalVars, chunkVars, ragVars, searchVars, pollerVars>>
outsideIngestion == <<toolVars, loopVars, streamVars, wfVars, evalVars, chunkVars, searchVars, pollerVars>>
outsidePoller == <<toolVars, loopVars, streamVars, wfVars, evalVars, chunkVars, ragVars, searchVars, reingestVars>>

\* ------------------------------------------------- dispatch as an operation

InitTool ==
  /\ toolName \in ToolNames
  /\ toolArgs \in ArgValues
  /\ toolSvc \in ServiceOutcomes
  /\ toolResult = NoResult

ToolIdle ==
  /\ toolName = ""
  /\ toolArgs = "undefined"
  /\ toolSvc = "ok"
  /\ toolResult = NoResult

\* await executeTool(toolName, args, context)
ExecuteToolCall ==
  /\ toolResult = NoResult
  /\ toolResult' = ExecuteTool(toolName, toolArgs, toolSvc)
  /\ UNCHANGED <<toolName, toolArgs, toolSvc>>
  /\ UNCHANGED outsideTool

\* ------------------------------------------------------ the turn, step by step

NoAgentResult ==
  [response |-> "none", toolCalls |-> <<>>, maxIterationsReached |-> FALSE,
   returned |-> FALSE]
NoReply == [content |-> "none", toolCalls |-> NoCalls]

InitLoop ==
  /\ lpc = "start"
  /\ messages = <<>>
  /\ maxIterations = 0
  /\ iteration = 0
  /\ conversationMessages = <<>>
  /\ executedToolCalls = <<>>
  /\ toolCalls = <<>>
  /\ callIndex = 1
  /\ agentResult = NoAgentResult
  /\ modelCalls = 0
  /\ dispatched = <<>>
  /\ firstReply = NoReply
  /\ replies = <<>>
  /\ results = <<>>
  /\ collaborators = <<>>
  /\ inFlight = {}

\* Entry of runAgent: read the config, build the message list.
RunAgentStart ==
  /\ lpc = "start"
  /\ \E history \in Histories, max \in 0..MaxIter :
       /\ messages' = history
       /\ maxIterations' = max
       /\ conversationMessages' =
            << Message("system", AGENT_SYSTEM_PROMPT, NoCalls, 0) >>
            \o WithoutSystem(history)
  /\ iteration' = 0
  /\ executedToolCalls' = <<>>
  /\ lpc' = "model"
  /\ UNCHANGED <<toolCalls, callIndex, agentResult, modelCalls, dispatched, firstReply,
                 replies, results, collaborators, inFlight>>
  /\ UNCHANGED outsideLoop

\* An awaited call: the model call, or the executeTool call of a tool call id.
ModelCallInFlight == [kind |-> "model", id |-> 0]
ToolCallInFlight(id) == [kind |-> "tool", id |-> id]

\* The top of a pass of the while loop: iteration++ and the call of
\* openai.chat.completions.create, which runAgent awaits.
RunAgentModelRequest ==
  /\ lpc = "model"
  /\ LoopCondition(iteration, maxIterations)
  /\ iteration' = iteration + 1
  /\ modelCalls' = modelCalls + 1
  /\ inFlight' = inFlight \cup {ModelCallInFlight}
  /\ lpc' = "awaiting_model"
  /\ UNCHANGED <<messages, maxIterations, conversationMessages, executedToolCalls, toolCalls,
                 callIndex, agentResult, dispatched, firstReply, replies, results,
                 collaborators>>
  /\ UNCHANGED outsideLoop

\* The model call settles: the push of the assistant message and, when the reply
\* has no tool calls, the return.
RunAgentModelCall ==
  /\ lpc = "awaiting_model"
  /\ inFlight' = inFlight \ {ModelCallInFlight}
  /\ \E content \in ReplyContents, replyCalls \in RepliesWithin(MaxCalls - Len(dispatched)) :
       LET assistantMessage ==
             [content |-> content,
              tool_calls |-> ProviderToolCalls(replyCalls, iteration)]
           extracted == ExtractToolCalls(assistantMessage)
       IN
       /\ replies' = Append(replies, [content |-> content, toolCalls |-> replyCalls])
       /\ firstReply' = IF modelCalls = 1
                        THEN [content |-> content, toolCalls |-> replyCalls]
                        ELSE firstReply
       /\ conversationMessages' =
            Append(conversationMessages,
                   Message("assistant", ContentOrEmpty(content), extracted, 0))
       /\ IF NoToolCalls(extracted)
          THEN /\ agentResult' = [response |-> ContentOrEmpty(content),
                                  toolCalls |-> executedToolCalls,
                                  maxIterationsReached |-> FALSE,   \* no such key
                                  returned |-> TRUE]
               /\ lpc' = "returned"
               /\ UNCHANGED <<toolCalls, callIndex>>
          ELSE /\ toolCalls' = extracted.calls
               /\ callIndex' = 1
               /\ lpc' = IF Len(extracted.calls) = 0 THEN "model" ELSE "tools"
               /\ UNCHANGED agentResult
  /\ UNCHANGED <<messages, maxIterations, iteration, modelCalls, executedToolCalls,
                 dispatched, results, collaborators>>
  /\ UNCHANGED outsideLoop

\* A tool message that does not name its call.
ToolMessageWithoutId(result, id) == Message("tool", result.success, NoCalls, 0)

\* { role: 'tool', tool_call_id: toolCall.id, content: JSON.stringify(result) }
ToolMessage(result, id) == Message("tool", result.success, NoCalls, id)

\* One pass of the for loop up to its await: the arguments are parsed and
\* executeTool is called.
RunAgentDispatch ==
  /\ lpc = "tools"
  /\ callIndex <= Len(toolCalls)
  /\ LET toolCall == toolCalls[callIndex]
         args == ParseArguments(toolCall.arguments)
     IN /\ dispatched' = Append(dispatched, [name |-> toolCall.name, args |-> args])
        /\ inFlight' = inFlight \cup {ToolCallInFlight(toolCall.id)}
  /\ lpc' = "awaiting_tool"
  /\ UNCHANGED <<messages, maxIterations, iteration, conversationMessages, executedToolCalls,
                 toolCalls, callIndex, agentResult, modelCalls, firstReply, replies, results,
                 collaborators>>
  /\ UNCHANGED outsideLoop

\* executeTool settles: the call is recorded and its tool message appended.
RunAgentExecuteTool ==
  /\ lpc = "awaiting_tool"
  /\ \E svc \in ServiceOutcomes :
       LET toolCall == toolCalls[callIndex]
           args == ParseArguments(toolCall.arguments)
           result == ExecuteTool(toolCall.name, args, svc)
       IN
       /\ inFlight' = inFlight \ {ToolCallInFlight(toolCall.id)}
       /\ results' = Append(results, result)
       /\ collaborators' = Append(collaborators, svc)
       /\ IF result.outcome = "threw"
          THEN /\ lpc' = "threw"
               /\ UNCHANGED <<executedToolCalls, conversationMessages, callIndex>>
          ELSE /\ executedToolCalls' =
                    RecordExecution(executedToolCalls, toolCall.name, args, result)
               /\ conversationMessages' =
                    Append(conversationMessages, ToolMessage(result, toolCall.id))
               /\ callIndex' = callIndex + 1
               /\ lpc' = IF callIndex = Len(toolCalls) THEN "model" ELSE "tools"
  /\ UNCHANGED <<messages, maxIterations, iteration, toolCalls, agentResult, modelCalls,
                 dispatched, firstReply, replies>>
  /\ UNCHANGED outsideLoop

\* Exit of the while loop: Max iterations reached.
RunAgentMaxIterations ==
  /\ lpc = "model"
  /\ ~LoopCondition(iteration, maxIterations)
  /\ LET last == LastAssistantContent(conversationMessages) IN
     agentResult' = [response |-> IF last \in {"none", ""} THEN FallbackResponse ELSE last,
                     toolCalls |-> executedToolCalls,
                     maxIterationsReached |-> FALSE,                \* no such key
                     returned |-> TRUE]
  /\ lpc' = "returned"
  /\ UNCHANGED <<messages, maxIterations, iteration, conversationMessages,
                 executedToolCalls, toolCalls, callIndex, modelCalls, dispatched, firstReply,
                 replies, results, collaborators, inFlight>>
  /\ UNCHANGED outsideLoop

NextLoopSteps ==
  \/ RunAgentStart
  \/ RunAgentModelRequest
  \/ RunAgentModelCall
  \/ RunAgentDispatch
  \/ RunAgentExecuteTool
  \/ RunAgentMaxIterations

\* ------------------------------------------------------- the streaming turn

\* An event the generator yields: {type, data}.
NoEvent ==
  [type |-> "none", iteration |-> 0, name |-> "", args |-> "", result |-> NoResult,
   content |-> "", toolCalls |-> <<>>, maxIterationsReached |-> FALSE]
ThinkingEvent(i) == [NoEvent EXCEPT !.type = "thinking", !.iteration = i]
ToolCallEvent(name, args) == [NoEvent EXCEPT !.type = "tool_call", !.name = name, !.args = args]
ToolResultEvent(name, result) ==
  [NoEvent EXCEPT !.type = "tool_result", !.name = name, !.result = result]
ContentEvent(content) == [NoEvent EXCEPT !.type = "content", !.content = content]
DoneEvent(executed, exhausted) ==
  [NoEvent EXCEPT !.type = "done", !.toolCalls = executed, !.maxIterationsReached = exhausted]

\* A streaming loop that runs one pass more.
StreamLoopConditionInclusive(i, max) == i <= max

\* while (iteration < maxIterations) of runAgentStream
StreamLoopCondition(i, max) == i < max

\* if (!toolCalls || toolCalls.length === 0) of runAgentStream
StreamNoToolCalls(extracted) == ~extracted.present \/ Len(extracted.calls) = 0

\* The model's reply number n: the one runAgent got when it got one, else any.
ReplyNumber(n) ==
  IF n <= Len(replies) THEN {replies[n]}
  ELSE [content : ReplyContents, toolCalls : RepliesWithin(MaxCalls - Len(streamDispatched))]

\* The result of dispatch number k: the one runAgent got when it made one, else any.
ResultNumber(k, name, args) ==
  IF k <= Len(results) THEN {results[k]}
  ELSE { ExecuteTool(name, args, svc) : svc \in ServiceOutcomes }

\* A loop top that yields nothing when a pass begins.
StreamLoopEntryQuiet(executed) ==
  IF StreamLoopCondition(streamIteration, maxIterations)
  THEN /\ streamIteration' = streamIteration + 1
       /\ events' = events
       /\ spc' = "thinking"
  ELSE /\ streamIteration' = streamIteration
       /\ events' = Append(events, DoneEvent(executed, TRUE))
       /\ spc' = "done"

\* The top of the while loop up to its next yield: 'thinking' of the next pass,
\* or 'done' with maxIterationsReached once the budget is used up.
StreamLoopEntry(executed) ==
  IF StreamLoopCondition(streamIteration, maxIterations)
  THEN /\ streamIteration' = streamIteration + 1
       /\ events' = Append(events, ThinkingEvent(streamIteration + 1))
       /\ spc' = "thinking"
  ELSE /\ streamIteration' = streamIteration
       /\ events' = Append(events, DoneEvent(executed, TRUE))
       /\ spc' = "done"

\* First next(): the message list is built and the loop entered. The stream is
\* run on the history and configuration of the turn runAgent has returned from.
RunAgentStreamStart ==
  /\ spc = "start"
  /\ lpc = "returned"
  /\ streamMessages' =
       << Message("system", AGENT_SYSTEM_PROMPT, NoCalls, 0) >> \o WithoutSystem(messages)
  /\ StreamLoopEntry(<<>>)
  /\ UNCHANGED <<streamExecuted, streamToolCalls, streamCallIndex, streamModelCalls,
                 streamDispatched>>
  /\ UNCHANGED streamInFlight
  /\ UNCHANGED outsideStream

\* Resumed after 'thinking': the model call, the push of the assistant message,
\* then 'content' or 'done' for a final answer, else 'tool_call' of the first call.
RunAgentStreamModelCall ==
  /\ spc = "thinking"
  /\ streamModelCalls' = streamModelCalls + 1
  /\ \E reply \in ReplyNumber(streamModelCalls + 1) :
       LET assistantMessage ==
             [content |-> reply.content,
              tool_calls |-> ProviderToolCalls(reply.toolCalls, streamIteration)]
           extracted == ExtractToolCalls(assistantMessage)
       IN
       /\ streamMessages' =
            Append(streamMessages,
                   Message("assistant", ContentOrEmpty(reply.content), extracted, 0))
       /\ IF StreamNoToolCalls(extracted)
          THEN /\ IF ContentOrEmpty(reply.content) # ""
                  THEN /\ events' = Append(events, ContentEvent(reply.content))
                       /\ spc' = "content"
                  ELSE /\ events' = Append(events, DoneEvent(streamExecuted, FALSE))
                       /\ spc' = "done"
               /\ UNCHANGED <<streamToolCalls, streamCallIndex>>
          ELSE /\ streamToolCalls' = extracted.calls
               /\ streamCallIndex' = 1
               /\ events' = Append(events,
                                   ToolCallEvent(extracted.calls[1].name,
                                                 ParseArguments(extracted.calls[1].arguments)))
               /\ spc' = "tool_call"
  /\ UNCHANGED <<streamIteration, streamExecuted, streamDispatched>>
  /\ UNCHANGED streamInFlight
  /\ UNCHANGED outsideStream

\* Resumed after 'content': 'done' of a final answer.
RunAgentStreamContent ==
  /\ spc = "content"
  /\ events' = Append(events, DoneEvent(streamExecuted, FALSE))
  /\ spc' = "done"
  /\ UNCHANGED <<streamIteration, streamMessages, streamExecuted, streamToolCalls,
                 streamCallIndex, streamModelCalls, streamDispatched>>
  /\ UNCHANGED streamInFlight
  /\ UNCHANGED outsideStream

\* Resumed after 'tool_call': executeTool is called, and the generator awaits it.
RunAgentStreamDispatch ==
  /\ spc = "tool_call"
  /\ LET toolCall == streamToolCalls[streamCallIndex]
         args == ParseArguments(toolCall.arguments)
     IN /\ streamDispatched' = Append(streamDispatched, [name |-> toolCall.name, args |-> args])
        /\ streamInFlight' = streamInFlight \cup {ToolCallInFlight(toolCall.id)}
  /\ spc' = "executing"
  /\ UNCHANGED <<streamIteration, streamMessages, streamExecuted, streamToolCalls,
                 streamCallIndex, events, streamModelCalls>>
  /\ UNCHANGED outsideStream

\* executeTool settles: the push to executedToolCalls, then 'tool_result'.
RunAgentStreamExecuteTool ==
  /\ spc = "executing"
  /\ LET toolCall == streamToolCalls[streamCallIndex]
         args == ParseArguments(toolCall.arguments)
     IN
     /\ streamInFlight' = streamInFlight \ {ToolCallInFlight(toolCall.id)}
     /\ \E result \in ResultNumber(Len(streamDispatched), toolCall.name, args) :
          IF result.outcome = "threw"
          THEN /\ spc' = "threw"
               /\ UNCHANGED <<streamExecuted, events>>
          ELSE /\ streamExecuted' =
                    RecordExecution(streamExecuted, toolCall.name, args, result)
               /\ events' = Append(events, ToolResultEvent(toolCall.name, result))
               /\ spc' = "tool_result"
  /\ UNCHANGED <<streamIteration, streamMessages, streamToolCalls, streamCallIndex,
                 streamModelCalls, streamDispatched>>
  /\ UNCHANGED outsideStream

\* Resumed after 'tool_result': the push of the tool message, then 'tool_call' of
\* the next call or the top of the while loop.
RunAgentStreamToolResult ==
  /\ spc = "tool_result"
  /\ LET toolCall == streamToolCalls[streamCallIndex]
         result == events[Len(events)].result
     IN streamMessages' =
          Append(streamMessages, Message("tool", result.success, NoCalls, toolCall.id))
  /\ IF streamCallIndex < Len(streamToolCalls)
     THEN /\ streamCallIndex' = streamCallIndex + 1
          /\ events' = Append(events,
                  ToolCallEvent(streamToolCalls[streamCallIndex + 1].name,
                                ParseArguments(streamToolCalls[streamCallIndex + 1].arguments)))
          /\ spc' = "tool_call"
          /\ UNCHANGED streamIteration
     ELSE /\ streamCallIndex' = streamCallIndex + 1
          /\ StreamLoopEntry(streamExecuted)
  /\ UNCHANGED <<streamExecuted, streamToolCalls, streamModelCalls, streamDispatched>>
  /\ UNCHANGED streamInFlight
  /\ UNCHANGED outsideStream

\* Resumed after 'done': the generator returns.
RunAgentStreamReturn ==
  /\ spc = "done"
  /\ spc' = "finished"
  /\ UNCHANGED <<streamIteration, streamMessages, streamExecuted, streamToolCalls,
                 streamCallIndex, events, streamModelCalls, streamDispatched>>
  /\ UNCHANGED streamInFlight
  /\ UNCHANGED outsideStream

\* The suspension points of the generator: its yield statements. Only there does
\* the consumer hold control.
YieldPoints == {"thinking", "tool_call", "tool_result", "content", "done"}

\* A generator that could be abandoned while it awaits executeTool.
YieldPointsAndAwaits == YieldPoints \cup {"executing"}

\* Where the consumer's for await loop can be left.
StopPoints == YieldPoints

\* The consumer leaves its for await loop after an event: the generator is
\* closed where it is suspended and none of its code runs again.
StopConsuming ==
  /\ spc \in StopPoints
  /\ spc' = "stopped"
  /\ UNCHANGED <<streamIteration, streamMessages, streamExecuted, streamToolCalls,
                 streamCallIndex, events, streamModelCalls, streamDispatched, streamInFlight>>
  /\ UNCHANGED outsideStream

NextStreamSteps ==
  \/ RunAgentStreamStart
  \/ RunAgentStreamModelCall
  \/ RunAgentStreamContent
  \/ RunAgentStreamDispatch
  \/ RunAgentStreamExecuteTool
  \/ RunAgentStreamToolResult
  \/ RunAgentStreamReturn
  \/ StopConsuming

\* ---------------------------------------------- properties of the dispatch

\* C4 (as claimed): for every tool name that is not a key of toolImplementations,
\* names inherited from Object.prototype included, executeTool (handed an args
\* value, as the loop does) returns a result whose success flag is false.
C4_UnknownToolFails ==
  (toolResult # NoResult /\ toolName \notin OwnTools /\ toolArgs # "undefined")
    => (toolResult.outcome = "returned" /\ toolResult.success = "false")

\* C5 (as claimed): for every tool name, every argument value (no value at all
\* included) and every service failure, executeTool returns and never throws.
C5_NeverThrows ==
  toolResult # NoResult => toolResult.outcome = "returned"

\* --------------------------------------------------- properties of the loop

\* The (name, args) of each entry of an execution log.
Dispatches(log) == [i \in 1..Len(log) |-> [name |-> log[i].name, args |-> log[i].args]]

\* A reply or message without tool calls: the list is absent or empty.
WithoutToolCalls(tc) == ~tc.present \/ tc.calls = <<>>

\* Indexes of the assistant messages that carry no tool call.
FinalAnswers ==
  { i \in 1..Len(conversationMessages) :
      /\ conversationMessages[i].role = "assistant"
      /\ WithoutToolCalls(conversationMessages[i].toolCalls) }

\* C1: a run of runAgent makes at most maxIterations model calls, a reply without
\* tool calls is the last thing the run asks of the model (the run has returned
\* and that reply is the last message), and the run returns.
C1_BoundedModelCalls ==
  /\ [](modelCalls <= maxIterations)
  /\ [](\A i \in FinalAnswers : lpc = "returned" /\ i = Len(conversationMessages))
  /\ <>(lpc = "returned" /\ agentResult.returned)

\* C1 witness: a turn that used its whole budget on tool calls and returned.
C1_Witness ==
  /\ lpc = "returned"
  /\ maxIterations = MaxIter
  /\ modelCalls = maxIterations
  /\ FinalAnswers = {}

\* C2: when runAgent has returned, the toolCalls of its result are exactly the
\* executeTool invocations of the turn, one entry each, in dispatch order.
C2_ToolCallsAreDispatches ==
  lpc = "returned" => Dispatches(agentResult.toolCalls) = dispatched

\* C2 witness: a returned turn with two dispatches, a failed one among them.
C2_Witness ==
  /\ lpc = "returned"
  /\ Len(dispatched) >= 2
  /\ \E i \in 1..Len(agentResult.toolCalls) : agentResult.toolCalls[i].result = "error"

\* C3: if the first reply of the turn has no tool calls, one model call was made,
\* executeTool was never invoked and the run returned that reply's text and an
\* empty tool-call list.
C3_FirstReplyFinal ==
  (firstReply # NoReply /\ WithoutToolCalls(firstReply.toolCalls))
    => /\ lpc = "returned"
       /\ modelCalls = 1
       /\ dispatched = <<>>
       /\ agentResult.response = ContentOrEmpty(firstReply.content)
       /\ agentResult.toolCalls = <<>>

\* C3 witness: a first reply with an empty tool_calls array and some text.
C3_Witness ==
  /\ firstReply # NoReply
  /\ firstReply.toolCalls.present
  /\ Len(firstReply.toolCalls.calls) = 0
  /\ agentResult.response = "text"

\* Positions of the system messages of a message list.
SystemMessages(msgs) == { i \in 1..Len(msgs) : msgs[i].role = "system" }
IsPrefix(a, b) == Len(a) <= Len(b) /\ SubSeq(b, 1, Len(a)) = a

\* The tools whose collaborator has an effect outside the program: sendEmail,
\* createEvent, createContact, createContactNote.
SideEffectTools ==
  {"send_email", "create_calendar_event", "create_hubspot_contact", "create_hubspot_note"}

\* Dispatches of the turn that reached a side-effecting collaborator which
\* returned null.
NullDispatches ==
  { k \in 1..Len(collaborators) :
      /\ dispatched[k].name \in SideEffectTools
      /\ dispatched[k].args \notin {"undefined", "null"}
      /\ collaborators[k] = "null" }

\* The tool-role messages of the conversation, in order.
ToolMessages == SelectSeq(conversationMessages, LAMBDA m : m.role = "tool")

AssistantPositions ==
  { p \in 1..Len(conversationMessages) : conversationMessages[p].role = "assistant" }

\* The messages between the assistant message at p and the next assistant
\* message (or the end of the conversation).
MessagesAfter(p) ==
  LET later == { q \in AssistantPositions : q > p }
      stop == IF later = {} THEN Len(conversationMessages) + 1
              ELSE CHOOSE q \in later : \A r \in later : q <= r
  IN SubSeq(conversationMessages, p + 1, stop - 1)

\* The tool calls of the reply at p that have been answered when a model call
\* follows: all of them once the for loop is over.
ForLoopOver == lpc \in {"model", "awaiting_model", "returned"}

\* The tool executions of the current reply that have started.
StartedOfReply == IF lpc = "awaiting_tool" THEN callIndex ELSE callIndex - 1

\* C25: within one turn at most one model call or tool execution is in flight;
\* the tool calls of a reply are dispatched in the reply's order, each one settled
\* before the next starts; and for each of them exactly one tool-role message
\* carrying its call id is appended, in that order, before the next model call.
C25_OneCallAtATime ==
  /\ Cardinality(inFlight) <= 1
  /\ (ModelCallInFlight \in inFlight) <=> (lpc = "awaiting_model")
  /\ lpc = "awaiting_tool" => inFlight = {ToolCallInFlight(toolCalls[callIndex].id)}
  /\ Len(dispatched) - Len(results) = Cardinality({o \in inFlight : o.kind = "tool"})
  /\ lpc \in {"tools", "awaiting_tool"} =>
       /\ StartedOfReply <= Len(dispatched)
       /\ \A i \in 1..StartedOfReply :
            dispatched[Len(dispatched) - StartedOfReply + i].name = toolCalls[i].name
  /\ \A p \in AssistantPositions :
       LET calls == conversationMessages[p].toolCalls.calls
           after == MessagesAfter(p)
           last == \A q \in AssistantPositions : q <= p
       IN /\ Len(after) <= Len(calls)
          /\ (~last \/ ForLoopOver) => Len(after) = Len(calls)
          /\ \A i \in 1..Len(after) :
               /\ after[i].role = "tool"
               /\ after[i].toolCallId = calls[i].id

\* A turn whose first reply asked for two tool calls, both answered before the
\* second model call, and which returned.
C25_Witness ==
  /\ lpc = "returned"
  /\ modelCalls >= 2
  /\ \E p \in AssistantPositions :
       /\ Len(conversationMessages[p].toolCalls.calls) = 2
       /\ Len(MessagesAfter(p)) = 2

\* Positions of the events of a type.
EventsOfType(type) == { i \in 1..Len(events) : events[i].type = type }

\* C26: in a fully consumed run of runAgentStream that raised no error, every
\* iteration begins with a 'thinking' event, every 'tool_call' is followed at once
\* by the 'tool_result' of the same call, 'content' comes only directly before
\* 'done', and there is exactly one 'done', which is the last event.
C26_EventOrder ==
  spc = "finished" =>
    LET n == Len(events) IN
    /\ n >= 1
    /\ EventsOfType("done") = {n}
    /\ Cardinality(EventsOfType("thinking")) = streamIteration
    /\ streamModelCalls = streamIteration
    /\ streamIteration >= 1 => events[1].type = "thinking"
    /\ \A i \in EventsOfType("thinking") :
         /\ events[i].iteration = Cardinality({ j \in EventsOfType("thinking") : j <= i })
         /\ i > 1 => events[i - 1].type = "tool_result"
         /\ events[i + 1].type \in {"tool_call", "content", "done"}
    /\ \A i \in EventsOfType("tool_call") :
         /\ events[i + 1].type = "tool_result"
         /\ events[i + 1].name = events[i].name
         /\ events[i - 1].type \in {"thinking", "tool_result"}
    /\ \A i \in EventsOfType("tool_result") :
         /\ events[i - 1].type = "tool_call"
         /\ events[i + 1].type \in {"tool_call", "thinking", "done"}
    /\ \A i \in EventsOfType("content") :
         /\ i + 1 = n
         /\ events[i - 1].type = "thinking"

\* A fully consumed run with two iterations, a tool call and a final content.
C26_Witness ==
  /\ spc = "finished"
  /\ streamIteration = 2
  /\ EventsOfType("tool_call") # {}
  /\ EventsOfType("content") # {}

\* Executions of the stream that have settled.
StreamSettled == Len(streamDispatched) - Cardinality(streamInFlight)

\* C27: when the consumer stops after an event no tool execution is started but
\* unfinished; an execution starts and settles between its 'tool_call' and its
\* 'tool_result' event, a 'tool_result' is emitted only for a settled execution,
\* and after the stop there is no further model call or tool execution.
C27_StopLeavesNothingHalfDone ==
  [][ /\ spc' = "stopped" => streamInFlight' = {}
      /\ Cardinality(EventsOfType("tool_result")') <= StreamSettled'
      /\ StreamSettled' <= Len(streamDispatched')
      /\ Len(streamDispatched') <= Cardinality(EventsOfType("tool_call")')
      /\ Cardinality(EventsOfType("tool_call")') - Cardinality(EventsOfType("tool_result")') <= 1
      /\ streamInFlight' # {} =>
           /\ events'[Len(events')].type = "tool_call"
           /\ events'[Len(events')].name = streamDispatched'[Len(streamDispatched')].name
      /\ spc = "stopped" =>
           /\ streamModelCalls' = streamModelCalls
           /\ streamDispatched' = streamDispatched
           /\ streamInFlight' = streamInFlight
           /\ events' = events
           /\ spc' = "stopped"
    ]_vars

\* The consumer stopped right after a 'tool_result' event, further tool calls of
\* the reply still to come.
C27_Witness ==
  /\ spc = "stopped"
  /\ events # <<>>
  /\ events[Len(events)].type = "tool_result"
  /\ streamCallIndex < Len(streamToolCalls)
  /\ StreamSettled = 1

\* C11: once runAgent has built its message list, the list holds exactly one
\* system message, the fixed prompt, as its first element, whatever the caller's
\* history holds; and every step leaves the old list as a prefix of the new one.
C11_OneSystemMessageFirst ==
  /\ [](lpc \notin {"off", "start"} =>
          /\ SystemMessages(conversationMessages) = {1}
          /\ conversationMessages[1].content = AGENT_SYSTEM_PROMPT)
  /\ [][lpc # "start" => IsPrefix(conversationMessages, conversationMessages')]_vars

\* C11 witness: the caller's history had a system message after a user message,
\* and the turn went through a tool call to its return.
C11_Witness ==
  /\ lpc = "returned"
  /\ SystemMessages(messages) = {2}
  /\ dispatched # <<>>
  /\ Len(conversationMessages) >= 4

\* Positions of the final answers (assistant messages without tool calls) of the
\* streaming turn.
StreamFinalAnswers ==
  { i \in 1..Len(streamMessages) :
      /\ streamMessages[i].role = "assistant"
      /\ WithoutToolCalls(streamMessages[i].toolCalls) }

\* C12 (as claimed): the value handed to the caller is marked budget-exhausted
\* exactly when the loop stopped without a final answer, by runAgent's result
\* as well as by the 'done' event of runAgentStream.
C12_BudgetExhaustionMarked ==
  /\ lpc = "returned" => (agentResult.maxIterationsReached <=> FinalAnswers = {})
  /\ \A i \in 1..Len(events) :
       events[i].type = "done" =>
         (events[i].maxIterationsReached <=> StreamFinalAnswers = {})

\* C13: when runAgentStream, run on the history, replies and tool results of a
\* returned runAgent turn, has been consumed to its end, it has made as many model
\* calls, dispatched the same calls in the same order, stopped for the same reason
\* (final answer or budget), and its last event is 'done' carrying the toolCalls
\* list runAgent returned.
C13_StreamMatchesRunAgent ==
  spc = "finished" =>
    LET done == events[Len(events)] IN
    /\ done.type = "done"
    /\ streamModelCalls = modelCalls
    /\ streamDispatched = dispatched
    /\ done.toolCalls = agentResult.toolCalls
    /\ done.maxIterationsReached <=> FinalAnswers = {}

\* C13 witness: both loops stopped on the budget after two model calls with one
\* tool call each.
C13_Witness ==
  /\ spc = "finished"
  /\ modelCalls = 2
  /\ Len(streamDispatched) = 2
  /\ FinalAnswers = {}
  /\ events[Len(events)].maxIterationsReached

\* ------------------------------------------------- task store and workflow

Users == {"u1", "u2"}

\* E-mail addresses as character strings; two of them differ only in case.
Addresses == { <<"a", "x">>, <<"A", "x">>, <<"b", "x">> }

\* String.prototype.toLowerCase on one character / on a string.
LowerChar(c) ==
  CASE c = "A" -> "a"
    [] c = "B" -> "b"
    [] c = "X" -> "x"
    [] OTHER -> c
ToLowerCase(str) == [i \in DOMAIN str |-> LowerChar(str[i])]

TaskIds == 1..MaxTasks
\* Thread ids: 0 stands for an absent (falsy) thread id; the request e-mail of
\* task t opens thread t.
ThreadIds == 0..MaxTasks
NoAddress == <<>>

TerminalStatuses == {"completed", "failed", "cancelled"}

NoData == [step |-> "none", contactEmail |-> NoAddress, emailThreadId |-> 0,
           waitingForReplyFrom |-> NoAddress, messages |-> <<>>]
NoTask == [exists |-> FALSE, userId |-> "none", status |-> "none", data |-> NoData]

\* updates argument of updateTask; "keep" / -1 / <<"keep">> mark a field the
\* patch does not name, "none" an absent status or message.
Keep == <<"keep">>
Updates(status, step, thread, waiting, msg) ==
  [status |-> status, step |-> step, emailThreadId |-> thread,
   waitingForReplyFrom |-> waiting, addMessage |-> msg]
NoUpdates == Updates("none", "keep", -1, Keep, "none")

\* { ...existingData, ...updates.context } followed by messages.push(addMessage)
MergeContext(existingData, updates) ==
  [step |-> IF updates.step = "keep" THEN existingData.step ELSE updates.step,
   contactEmail |-> existingData.contactEmail,
   emailThreadId |-> IF updates.emailThreadId = -1 THEN existingData.emailThreadId
                     ELSE updates.emailThreadId,
   waitingForReplyFrom |-> IF updates.waitingForReplyFrom = Keep
                           THEN existingData.waitingForReplyFrom
                           ELSE updates.waitingForReplyFrom,
   messages |-> IF updates.addMessage = "none" THEN existingData.messages
                ELSE Append(existingData.messages, updates.addMessage)]

NoWorkflowResult == [returned |-> FALSE, success |-> FALSE, step |-> "none",
                     waitingForReply |-> FALSE]
WorkflowResult(success, step, waiting) ==
  [returned |-> TRUE, success |-> success, step |-> step, waitingForReply |-> waiting]

Flows == 1..NumFlows

\* The fields of task.data the step handlers read: context.step, context.contact.
ContextOf(data) == [step |-> data.step, contactEmail |-> data.contactEmail]
NoContext == ContextOf(NoData)

IdleFlow ==
  [pc |-> "idle", op |-> "none", taskId |-> 0,
   actor |-> "none",            \* ctx.userId of the tool call that began the operation
   entryStatus |-> "none",      \* status of the task resumeFromReply read at entry
   context |-> NoContext,       \* what executeStep reads of the task object it holds
   existingData |-> NoData,     \* updateTask: data of the row read by findUnique
   updates |-> NoUpdates,       \* updateTask: its updates argument
   after |-> "none",            \* what follows the pending updateTask
   result |-> NoWorkflowResult]

InitWF ==
  /\ tasks = [t \in TaskIds |-> NoTask]
  /\ nextTaskId = 1
  /\ byUpdatedAt = <<>>
  /\ flow = [f \in Flows |-> IdleFlow]
  /\ emailsSent = [t \in TaskIds |-> 0]
  /\ eventsCreated = [t \in TaskIds |-> 0]
  /\ notesCreated = [t \in TaskIds |-> 0]
  /\ confirmationsSent = [t \in TaskIds |-> 0]
  /\ opsBegun = 0

\* A flow slot is free when its operation has returned; a new operation takes
\* the lowest free slot.
Free(f) == flow[f].pc \in {"idle", "done"}
CanBegin(f) ==
  /\ Free(f)
  /\ \A g \in Flows : g < f => ~Free(g)
  /\ opsBegun < MaxOps

\* A flow whose operation returned: only its result is left.
Returned(f, result) ==
  [IdleFlow EXCEPT !.pc = "done", !.op = flow[f].op, !.taskId = flow[f].taskId,
                   !.result = result]

\* getTasksWaitingForReply: rows of the user with status waiting_reply,
\* ordered by updatedAt ascending.
\* A query that forgets the owner.
getTasksWaitingForReplyAnyUser(userId) ==
  SelectSeq(byUpdatedAt, LAMBDA t : tasks[t].status = "waiting_reply")

getTasksWaitingForReply(userId) ==
  SelectSeq(byUpdatedAt, LAMBDA t : /\ tasks[t].userId = userId
                                    /\ tasks[t].status = "waiting_reply")

\* A test that looks at the sender only.
MatchesWaitingSenderOnly(context, fromEmail, threadId) ==
  /\ context.waitingForReplyFrom # NoAddress
  /\ ToLowerCase(context.waitingForReplyFrom) = ToLowerCase(fromEmail)

\* The test of the for loop of findTaskWaitingForEmail for one task.
MatchesWaiting(context, fromEmail, threadId) ==
  /\ context.waitingForReplyFrom # NoAddress
  /\ ToLowerCase(context.waitingForReplyFrom) = ToLowerCase(fromEmail)
  /\ \/ (threadId # 0 /\ context.emailThreadId = threadId)
     \/ threadId = 0

\* findTaskWaitingForEmail: id of the first matching task, 0 for null.
findTaskWaitingForEmail(userId, fromEmail, threadId) ==
  LET waiting == getTasksWaitingForReply(userId)
      hits == { i \in 1..Len(waiting) :
                  MatchesWaiting(tasks[waiting[i]].data, fromEmail, threadId) }
  IN IF hits = {} THEN 0
     ELSE waiting[CHOOSE i \in hits : \A j \in hits : i <= j]

\* The context startMeetingScheduling builds.
InitialContext(contactEmail) ==
  [step |-> "initial", contactEmail |-> contactEmail, emailThreadId |-> 0,
   waitingForReplyFrom |-> NoAddress, messages |-> << "started" >>]

\* createTask (status pending) followed by the entry of executeStep.
StartMeetingScheduling(f) ==
  /\ CanBegin(f)
  /\ nextTaskId <= MaxTasks
  /\ \E userId \in Users, contactEmail \in Addresses :
       /\ tasks' = [tasks EXCEPT ![nextTaskId] =
                      [exists |-> TRUE, userId |-> userId, status |-> "pending",
                       data |-> InitialContext(contactEmail)]]
       /\ flow' = [flow EXCEPT ![f] =
                     [IdleFlow EXCEPT !.pc = "exec", !.op = "start",
                                      !.taskId = nextTaskId,
                                      !.context = ContextOf(InitialContext(contactEmail))]]
  /\ nextTaskId' = nextTaskId + 1
  /\ byUpdatedAt' = Append(byUpdatedAt, nextTaskId)
  /\ opsBegun' = opsBegun + 1
  /\ UNCHANGED effectVars
  /\ UNCHANGED outsideWF

\* checkForTaskReply up to the test of the task found.
CheckForTaskReply(f) ==
  /\ CanBegin(f)
  /\ \E userId \in Users, from \in Addresses, threadId \in ThreadIds :
       LET task == findTaskWaitingForEmail(userId, from, threadId) IN
       flow' = [flow EXCEPT ![f] =
                  IF task = 0
                  THEN [IdleFlow EXCEPT !.pc = "done", !.op = "poll"]
                  ELSE [IdleFlow EXCEPT !.pc = "resume", !.op = "poll", !.taskId = task]]
  /\ opsBegun' = opsBegun + 1
  /\ UNCHANGED <<tasks, nextTaskId, byUpdatedAt, effectVars>>
  /\ UNCHANGED outsideWF

\* resumeFromReply: getTask, then updateTask up to its findUnique.
ResumeFromReply(f) ==
  /\ flow[f].pc = "resume"
  /\ flow' = [flow EXCEPT ![f].pc = "update_write",
                          ![f].entryStatus = tasks[flow[f].taskId].status,
                          ![f].existingData = tasks[flow[f].taskId].data,
                          ![f].updates = Updates("in_progress", "received_reply", -1, Keep,
                                                 "received_reply"),
                          ![f].after = "reget"]
  /\ UNCHANGED <<tasks, nextTaskId, byUpdatedAt, effectVars, opsBegun>>
  /\ UNCHANGED outsideWF

\* The WorkflowResult a handler returns once its last updateTask is done.
ResultAfter(after, step) ==
  CASE after = "return_waiting" -> WorkflowResult(TRUE, "sent_request", TRUE)
    [] after = "return_confirmed" -> WorkflowResult(TRUE, "confirmed", FALSE)
    [] after = "return_failed" -> WorkflowResult(FALSE, step, FALSE)
    [] OTHER -> NoWorkflowResult

\* updateTask: merge, push the message, prisma.task.update; then the caller goes on.
UpdateTaskWrite(f) ==
  /\ flow[f].pc = "update_write"
  /\ LET t == flow[f].taskId
         u == flow[f].updates
     IN /\ tasks' = [tasks EXCEPT ![t].status = IF u.status = "none" THEN @ ELSE u.status,
                                  ![t].data = MergeContext(flow[f].existingData, u)]
        /\ byUpdatedAt' = Append(SelectSeq(byUpdatedAt, LAMBDA x : x # t), t)
  /\ flow' = [flow EXCEPT ![f] =
                IF flow[f].after = "reget"
                THEN [flow[f] EXCEPT !.pc = "get_updated", !.entryStatus = "none",
                                     !.existingData = NoData, !.updates = NoUpdates,
                                     !.after = "none"]
                ELSE Returned(f, ResultAfter(flow[f].after, flow[f].context.step))]
  /\ UNCHANGED <<nextTaskId, effectVars, opsBegun>>
  /\ UNCHANGED outsideWF

\* const updatedTask = await getTask(id); executeStep(userId, updatedTask)
GetUpdatedTask(f) ==
  /\ flow[f].pc = "get_updated"
  /\ flow' = [flow EXCEPT ![f].pc = "exec",
                          ![f].context = ContextOf(tasks[flow[f].taskId].data)]
  /\ UNCHANGED <<tasks, nextTaskId, byUpdatedAt, effectVars, opsBegun>>
  /\ UNCHANGED outsideWF

\* A catch block that logs the error and leaves the status alone.
CatchUpdatesLogOnly == Updates("none", "keep", -1, Keep, "error")

\* catch block of executeStep: updateTask({status: 'failed', addMessage: Error ...})
CatchUpdates == Updates("failed", "keep", -1, Keep, "error")

\* A first step that marks the task in_progress instead of waiting_reply.
SendRequestUpdatesInProgress(taskId, context) ==
  Updates("in_progress", "sent_request", taskId, context.contactEmail, "sent_request")

\* stepSendRequest: the updates of its updateTask; the request opens thread taskId.
SendRequestUpdates(taskId, context) ==
  Updates("waiting_reply", "sent_request", taskId, context.contactEmail, "sent_request")

\* executeStep, case 'initial': stepSendRequest up to the findUnique of its updateTask.
StepSendRequest(f) ==
  /\ flow[f].pc = "exec"
  /\ flow[f].context.step = "initial"
  /\ \E sendEmail \in ServiceOutcomes :
       IF sendEmail = "ok"
       THEN /\ emailsSent' = [emailsSent EXCEPT ![flow[f].taskId] = @ + 1]
            /\ flow' = [flow EXCEPT ![f].pc = "update_write",
                                    ![f].existingData = tasks[flow[f].taskId].data,
                                    ![f].updates =
                                       SendRequestUpdates(flow[f].taskId, flow[f].context),
                                    ![f].after = "return_waiting"]
       ELSE /\ UNCHANGED emailsSent
            /\ flow' = [flow EXCEPT ![f].pc = "update_write",
                                    ![f].existingData = tasks[flow[f].taskId].data,
                                    ![f].updates = CatchUpdates,
                                    ![f].after = "return_failed"]
  /\ UNCHANGED <<tasks, nextTaskId, byUpdatedAt, eventsCreated, notesCreated,
                 confirmationsSent, opsBegun>>
  /\ UNCHANGED outsideWF

\* executeStep, cases 'sent_request' and 'confirmed': return without a change.
ExecuteStepReturn(f) ==
  /\ flow[f].pc = "exec"
  /\ flow[f].context.step \in {"sent_request", "confirmed"}
  /\ flow' = [flow EXCEPT ![f] =
                Returned(f, WorkflowResult(TRUE, flow[f].context.step,
                                           flow[f].context.step = "sent_request"))]
  /\ UNCHANGED <<tasks, nextTaskId, byUpdatedAt, effectVars, opsBegun>>
  /\ UNCHANGED outsideWF

\* executeStep, case 'received_reply': stepProcessReplyAndSchedule up to the findUnique of its updateTask.
StepProcessReplyAndSchedule(f) ==
  /\ flow[f].pc = "exec"
  /\ flow[f].context.step = "received_reply"
  /\ \E createEvent \in ServiceOutcomes :
       IF createEvent = "ok"
       THEN /\ eventsCreated' = [eventsCreated EXCEPT ![flow[f].taskId] = @ + 1]
            /\ flow' = [flow EXCEPT ![f].pc = "update_write",
                                    ![f].existingData = tasks[flow[f].taskId].data,
                                    ![f].updates = Updates("none", "scheduled", -1, Keep,
                                                           "scheduled"),
                                    ![f].after = "reget"]
       ELSE /\ UNCHANGED eventsCreated
            /\ flow' = [flow EXCEPT ![f].pc = "update_write",
                                    ![f].existingData = tasks[flow[f].taskId].data,
                                    ![f].updates = CatchUpdates,
                                    ![f].after = "return_failed"]
  /\ UNCHANGED <<tasks, nextTaskId, byUpdatedAt, emailsSent, notesCreated,
                 confirmationsSent, opsBegun>>
  /\ UNCHANGED outsideWF

\* executeStep, case 'scheduled': stepAddCRMNote up to the findUnique of its
\* updateTask; a failure
\* of the CRM is swallowed by the handler's own try/catch.
StepAddCRMNote(f) ==
  /\ flow[f].pc = "exec"
  /\ flow[f].context.step = "scheduled"
  /\ \E createContactNote \in ServiceOutcomes :
       /\ notesCreated' = [notesCreated EXCEPT ![flow[f].taskId] =
                             IF createContactNote = "ok" THEN @ + 1 ELSE @]
       /\ flow' = [flow EXCEPT ![f].pc = "update_write",
                                    ![f].existingData = tasks[flow[f].taskId].data,
                               ![f].updates =
                                  Updates("none", "noted", -1, Keep,
                                          IF createContactNote = "ok"
                                          THEN "noted" ELSE "note_skipped"),
                               ![f].after = "reget"]
  /\ UNCHANGED <<tasks, nextTaskId, byUpdatedAt, emailsSent, eventsCreated,
                 confirmationsSent, opsBegun>>
  /\ UNCHANGED outsideWF

\* A last step that records the step and leaves the status alone.
SendConfirmationUpdatesStepOnly == Updates("none", "confirmed", -1, Keep, "confirmed")

\* stepSendConfirmation: the updates of its updateTask.
SendConfirmationUpdates == Updates("completed", "confirmed", -1, Keep, "confirmed")

\* executeStep, case 'noted': stepSendConfirmation up to the findUnique of its updateTask.
StepSendConfirmation(f) ==
  /\ flow[f].pc = "exec"
  /\ flow[f].context.step = "noted"
  /\ \E sendEmail \in ServiceOutcomes :
       IF sendEmail = "ok"
       THEN /\ confirmationsSent' = [confirmationsSent EXCEPT ![flow[f].taskId] = @ + 1]
            /\ flow' = [flow EXCEPT ![f].pc = "update_write",
                                    ![f].existingData = tasks[flow[f].taskId].data,
                                    ![f].updates = SendConfirmationUpdates,
                                    ![f].after = "return_confirmed"]
       ELSE /\ UNCHANGED confirmationsSent
            /\ flow' = [flow EXCEPT ![f].pc = "update_write",
                                    ![f].existingData = tasks[flow[f].taskId].data,
                                    ![f].updates = CatchUpdates,
                                    ![f].after = "return_failed"]
  /\ UNCHANGED <<tasks, nextTaskId, byUpdatedAt, emailsSent, eventsCreated,
                 notesCreated, opsBegun>>
  /\ UNCHANGED outsideWF

\* update_task tool with status 'cancelled' on a meeting-scheduling task:
\* getTask, getMeetingSchedulingStatus, then cancelTask's call of updateTask.
CancelTask(f) ==
  /\ CanBegin(f)
  /\ \E t \in TaskIds, ctxUser \in Users :
       /\ tasks[t].exists
       /\ flow' = [flow EXCEPT ![f] =
                     [IdleFlow EXCEPT !.pc = "update_write", !.op = "cancel",
                                      !.taskId = t,
                                      !.actor = ctxUser,
                                      !.existingData = tasks[t].data,
                                      !.updates = Updates("cancelled", "keep", -1, Keep,
                                                          "cancelled"),
                                      !.after = "return_cancelled"]]
  /\ opsBegun' = opsBegun + 1
  /\ UNCHANGED <<tasks, nextTaskId, byUpdatedAt, effectVars>>
  /\ UNCHANGED outsideWF

WFStep(f) ==
    \/ StartMeetingScheduling(f)
    \/ CheckForTaskReply(f)
    \/ ResumeFromReply(f)
    \/ UpdateTaskWrite(f)
    \/ GetUpdatedTask(f)
    \/ StepSendRequest(f)
    \/ ExecuteStepReturn(f)
    \/ StepProcessReplyAndSchedule(f)
    \/ StepAddCRMNote(f)
    \/ StepSendConfirmation(f)
    \/ CancelTask(f)

NextWFSteps == \E f \in Flows : WFStep(f)

\* ------------------------------------------- properties of the task engine

TaskOf(f) == flow[f].taskId
Returns(f) == flow[f].pc # "done" /\ flow'[f].pc = "done"
Count(log, tag) == Cardinality({ i \in 1..Len(log) : log[i] = tag })

\* C6 (as claimed): resumeFromReply applied to a task whose status is completed,
\* failed or cancelled changes nothing of the task and has no side effect.
C6_TerminalNotResumed ==
  [][\A f \in Flows :
       (/\ flow[f].pc = "update_write"
        /\ flow[f].entryStatus \in TerminalStatuses
        /\ flow'[f] # flow[f])
         => (tasks'[TaskOf(f)] = tasks[TaskOf(f)] /\ UNCHANGED effectVars)]_vars

\* C7 (as claimed): the find-waiting-then-resume sequence for one task id is
\* never executed by two flows at once.
InResume(f) == flow[f].op = "poll" /\ flow[f].pc \notin {"idle", "done"}
C7_ResumeSerialized ==
  \A f, g \in Flows : (f # g /\ InResume(f) /\ InResume(g)) => TaskOf(f) # TaskOf(g)

C9_StartWaitsForReply ==
  /\ [][\A f \in Flows :
          (flow[f].op = "start" /\ Returns(f) /\ emailsSent'[TaskOf(f)] > 0)
            => /\ tasks'[TaskOf(f)].status = "waiting_reply"
               /\ tasks'[TaskOf(f)].data.step = "sent_request"
               /\ emailsSent'[TaskOf(f)] = 1
               /\ Count(tasks'[TaskOf(f)].data.messages, "sent_request") = 1
               /\ flow'[f].result = WorkflowResult(TRUE, "sent_request", TRUE)]_vars
  /\ [][\A t \in TaskIds :
          (tasks[t].status = "waiting_reply" /\ tasks'[t] # tasks[t])
            => \E f \in Flows : /\ flow[f].op \in {"poll", "cancel"}
                                /\ flow[f].pc = "update_write"
                                /\ TaskOf(f) = t
                                /\ flow'[f] # flow[f]]_vars

\* C9 witness: a start has returned with its task waiting for the reply.
C9_Witness ==
  \E f \in Flows :
    /\ flow[f].op = "start"
    /\ flow[f].pc = "done"
    /\ flow[f].result.waitingForReply
    /\ tasks[TaskOf(f)].status = "waiting_reply"
    /\ emailsSent[TaskOf(f)] = 1

\* Two addresses that differ at most in the case of their letters.
SameLetter(c, d) == c = d \/ {c, d} \in {{"a", "A"}, {"b", "B"}, {"x", "X"}}
SameIgnoringCase(a, b) ==
  Len(a) = Len(b) /\ \A i \in 1..Len(a) : SameLetter(a[i], b[i])

\* C10: findTaskWaitingForEmail returns only a task owned by userId in status
\* waiting_reply whose awaited sender is fromEmail up to letter case, and with no
\* thread id it finds a waiting task of the user for every spelling of its sender.
C10_FindWaitingScoped ==
  \A userId \in Users, fromEmail \in Addresses :
    /\ \A threadId \in ThreadIds :
         LET found == findTaskWaitingForEmail(userId, fromEmail, threadId) IN
         found # 0 =>
           /\ tasks[found].userId = userId
           /\ tasks[found].status = "waiting_reply"
           /\ SameIgnoringCase(tasks[found].data.waitingForReplyFrom, fromEmail)
    /\ (\E t \in TaskIds :
           /\ tasks[t].userId = userId
           /\ tasks[t].status = "waiting_reply"
           /\ SameIgnoringCase(tasks[t].data.waitingForReplyFrom, fromEmail))
         => findTaskWaitingForEmail(userId, fromEmail, 0) # 0

\* C10 witness: a task is found for a sender spelled in another case than the
\* task's awaited sender, while the other user has no waiting task.
C10_Witness ==
  \E userId \in Users, fromEmail \in Addresses :
    LET found == findTaskWaitingForEmail(userId, fromEmail, 0) IN
    /\ found # 0
    /\ tasks[found].data.waitingForReplyFrom # fromEmail
    /\ \A other \in Users \ {userId} :
         findTaskWaitingForEmail(other, fromEmail, 0) = 0

\* C23: an update_task call made for user U on a task owned by another user
\* leaves that task unchanged.
C23_UpdateTaskOwnerOnly ==
  [][\A f \in Flows :
       (/\ flow[f].op = "cancel"
        /\ flow[f].pc = "update_write"
        /\ flow'[f] # flow[f]
        /\ tasks[TaskOf(f)].userId # flow[f].actor)
         => tasks'[TaskOf(f)] = tasks[TaskOf(f)]]_vars

\* Position of a status on the path pending -> in_progress / waiting_reply ->
\* completed / failed / cancelled.
StatusRank(status) ==
  CASE status = "pending" -> 0
    [] status \in {"in_progress", "waiting_reply"} -> 1
    [] OTHER -> 2

\* C24: a task is created pending, its status only moves forward on the path
\* pending -> in_progress or waiting_reply -> completed, failed or cancelled, and
\* a completed, failed or cancelled task never changes status again.
C24_StatusMovesForward ==
  [][\A t \in TaskIds :
       /\ (~tasks[t].exists /\ tasks'[t].exists) => tasks'[t].status = "pending"
       /\ tasks[t].exists =>
            /\ StatusRank(tasks'[t].status) >= StatusRank(tasks[t].status)
            /\ tasks[t].status \in TerminalStatuses
                 => tasks'[t].status = tasks[t].status]_vars

\* C28: resumeFromReply applied to a task waiting at sent_request, every
\* collaborator succeeding, runs received_reply -> scheduled -> noted ->
\* confirmed in the one call: it returns only at the end, with success and step
\* confirmed, the task is completed at step confirmed, and the reply and each of
\* the three steps have one entry in the message log.
C28_ResumeChainsToConfirmed ==
  [][\A f \in Flows :
       (flow[f].op = "poll" /\ TaskOf(f) # 0 /\ Returns(f))
         => /\ flow'[f].result.success => flow'[f].result.step = "confirmed"
            /\ (/\ eventsCreated'[TaskOf(f)] = 1
                /\ notesCreated'[TaskOf(f)] = 1
                /\ confirmationsSent'[TaskOf(f)] = 1)
                 => /\ flow'[f].result = WorkflowResult(TRUE, "confirmed", FALSE)
                    /\ tasks'[TaskOf(f)].status = "completed"
                    /\ tasks'[TaskOf(f)].data.step = "confirmed"
                    /\ \A entry \in {"received_reply", "scheduled", "noted", "confirmed"} :
                         Count(tasks'[TaskOf(f)].data.messages, entry) = 1
                    /\ Len(tasks'[TaskOf(f)].data.messages) = 6]_vars

\* A resume has returned from a completed chain.
C28_Witness ==
  \E f \in Flows :
    /\ flow[f].op = "poll"
    /\ flow[f].pc = "done"
    /\ flow[f].result = WorkflowResult(TRUE, "confirmed", FALSE)
    /\ tasks[TaskOf(f)].status = "completed"
    /\ eventsCreated[TaskOf(f)] = 1
    /\ notesCreated[TaskOf(f)] = 1
    /\ confirmationsSent[TaskOf(f)] = 1

\* The waiting tasks of a user that await a sender, whatever the thread.
WaitingFor(userId, fromEmail) ==
  { t \in TaskIds :
      /\ tasks[t].exists
      /\ tasks[t].userId = userId
      /\ tasks[t].status = "waiting_reply"
      /\ SameIgnoringCase(tasks[t].data.waitingForReplyFrom, fromEmail) }

\* C29: when several tasks of a user wait for the same sender and the call gives
\* no thread id, findTaskWaitingForEmail returns the one created first (task ids
\* are handed out in creation order).
C29_FirstCreatedWins ==
  \A userId \in Users, fromEmail \in Addresses :
    Cardinality(WaitingFor(userId, fromEmail)) >= 2
      => \A t \in WaitingFor(userId, fromEmail) :
           findTaskWaitingForEmail(userId, fromEmail, 0) <= t

\* The flows whose updateTask writes task t in this step.
WritersOf(t) ==
  { f \in Flows : flow[f].pc = "update_write" /\ flow[f].taskId = t /\ flow'[f] # flow[f] }

\* C34: the message log of a task is append-only under every interleaving of
\* updateTask calls: a call with addMessage adds exactly one entry at the end,
\* no entry is removed, reordered or changed, and the context fields a call's
\* patch does not name keep their values (no concurrent update is lost).
C34_LogAppendOnly ==
  [][ \A t \in TaskIds :
        (tasks[t].exists /\ tasks'[t] # tasks[t]) =>
          \E f \in WritersOf(t) :
            LET u == flow[f].updates
                old == tasks[t].data
                new == tasks'[t].data
            IN /\ new.messages = IF u.addMessage = "none" THEN old.messages
                                  ELSE Append(old.messages, u.addMessage)
               /\ u.step = "keep" => new.step = old.step
               /\ u.emailThreadId = -1 => new.emailThreadId = old.emailThreadId
               /\ u.waitingForReplyFrom = Keep =>
                    new.waitingForReplyFrom = old.waitingForReplyFrom
               /\ new.contactEmail = old.contactEmail
    ]_vars

\* C36: status and step of a meeting-scheduling task agree in every reachable
\* state: waiting_reply implies sent_request, completed implies confirmed, and
\* confirmed implies completed.
C36_StatusAndStepAgree ==
  \A t \in TaskIds :
    tasks[t].exists =>
      /\ tasks[t].status = "waiting_reply" => tasks[t].data.step = "sent_request"
      /\ tasks[t].status = "completed" => tasks[t].data.step = "confirmed"
      /\ tasks[t].data.step = "confirmed" => tasks[t].status = "completed"

\* C37: over the life of a task at most one meeting-request email is sent, at
\* most one calendar event is created and at most one confirmation email is sent.
C37_AtMostOneOfEach ==
  \A t \in TaskIds :
    /\ emailsSent[t] <= 1
    /\ eventsCreated[t] <= 1
    /\ confirmationsSent[t] <= 1

\* C39: called with a thread id, findTaskWaitingForEmail returns a waiting task
\* only if the sender is the task's awaited sender and the thread id is the
\* task's emailThreadId; the awaited sender in another thread, or the task's
\* thread with another sender, matches no task.
C39_ThreadAndSenderMatch ==
  \A userId \in Users, fromEmail \in Addresses, threadId \in ThreadIds \ {0} :
    LET found == findTaskWaitingForEmail(userId, fromEmail, threadId) IN
    /\ found # 0 =>
         /\ tasks[found].status = "waiting_reply"
         /\ SameIgnoringCase(tasks[found].data.waitingForReplyFrom, fromEmail)
         /\ tasks[found].data.emailThreadId = threadId
    /\ (\A t \in TaskIds :
           (tasks[t].exists /\ tasks[t].status = "waiting_reply") =>
             \/ tasks[t].data.emailThreadId # threadId
             \/ ~SameIgnoringCase(tasks[t].data.waitingForReplyFrom, fromEmail))
         => found = 0

\* A task waits for a sender in its thread: a reply of that sender in another
\* thread finds nothing, another sender in the task's thread finds nothing, and
\* the sender in the task's thread finds the task.
C39_Witness ==
  \E t \in TaskIds, other \in ThreadIds \ {0}, stranger \in Addresses :
    LET data == tasks[t].data IN
    /\ tasks[t].exists
    /\ tasks[t].status = "waiting_reply"
    /\ data.emailThreadId \notin {0, other}
    /\ ~SameIgnoringCase(data.waitingForReplyFrom, stranger)
    /\ findTaskWaitingForEmail(tasks[t].userId, data.waitingForReplyFrom, other) = 0
    /\ findTaskWaitingForEmail(tasks[t].userId, stranger, data.emailThreadId) = 0
    /\ findTaskWaitingForEmail(tasks[t].userId, data.waitingForReplyFrom,
                               data.emailThreadId) = t

\* status of the store_task result: result.waitingForReply ? 'waiting_reply' : 'in_progress'
StoreTaskStatus(result) == IF result.waitingForReply THEN "waiting_reply" ELSE "in_progress"

\* C40: the status store_task reports for a meeting-scheduling task is the
\* status persisted for the task when the tool returns, on the success path
\* (waiting_reply) and when the first step fails (failed).
C40_ReportedStatusIsStored ==
  [][ \A f \in Flows :
        (Returns(f) /\ flow'[f].op = "start") =>
          StoreTaskStatus(flow'[f].result) = tasks'[flow'[f].taskId].status
    ]_vars

\* ------------------------------------------------------- proactive evaluator

\* ProactiveEvent variants.
EventTypes == {"new_email", "calendar_event_soon", "crm_contact_updated", "crm_note_added"}

\* The reply text, token by token: prose without braces, the two braces, and the
\* member list of a decision object: "act" is shouldAct true with a
\* suggestedAction, "idle" is shouldAct false, "act_text" is shouldAct "yes" (a
\* string) with a suggestedAction, "act_null" is shouldAct null with a
\* suggestedAction.
Members == {"act", "idle", "act_text", "act_null"}
ReplyTokens == {"prose", "{", "}"} \cup Members
ReplyTexts == UNION { [1..n -> ReplyTokens] : n \in 0..MaxReplyLen }

\* Outcomes of openai.chat.completions.create: it throws, or the first choice has
\* content null, or it has a text.
NoModelReply == [kind |-> "none", content |-> <<>>]
ModelOutcomes ==
  { [kind |-> "throws", content |-> <<>>], [kind |-> "null", content |-> <<>>] }
  \cup { [kind |-> "text", content |-> c] : c \in ReplyTexts }

\* ProactiveResult; fields a value lacks are "undefined".
ProactiveResult(shouldAct, reasoning, suggestedAction, executed) ==
  [shouldAct |-> shouldAct, reasoning |-> reasoning, suggestedAction |-> suggestedAction,
   executed |-> executed]
NoProactiveResult == ProactiveResult("none", "none", "none", "none")

\* JavaScript truthiness of the values a decision field takes here.
Truthy(v) == v \notin {"false", "undefined", "null", "", "none"}

\* The instruction store is not part of the sources at hand: getActiveInstructions
\* returns the user's active instructions, here their number.
getActiveInstructions == instructionCount

\* An evaluator that asks the model whatever the instruction list holds.
NoInstructionsNever(n) == FALSE

\* instructions.length === 0
NoInstructions(n) == n = 0

\* return of the zero-instructions branch
NoInstructionsResult ==
  ProactiveResult("false", "No active instructions to evaluate against.", "undefined",
                  "undefined")

\* return of the !jsonMatch branch
ParseFailureResult ==
  ProactiveResult("false", "Failed to evaluate - could not parse response", "undefined",
                  "undefined")

\* A catch block that hands the failure on without a reasoning.
EvaluationFailedSilent == ProactiveResult("false", "", "undefined", "undefined")

\* return of the catch block: `Evaluation failed: ${message}`
EvaluationFailedResult ==
  ProactiveResult("false", "Evaluation failed: message", "undefined", "undefined")

\* content.match(/\{[\s\S]*\}/): from the first "{" to the last "}", or <<>> for null.
Positions(content, token) == { i \in 1..Len(content) : content[i] = token }
First(S) == CHOOSE i \in S : \A j \in S : i <= j
Last(S) == CHOOSE i \in S : \A j \in S : j <= i
JsonMatch(content) ==
  LET open == Positions(content, "{")
      close == Positions(content, "}")
  IN IF open = {} \/ close = {} \/ First(open) > Last(close) THEN <<>>
     ELSE SubSeq(content, First(open), Last(close))

\* The shouldAct member of a parsed decision object, as JSON.parse gives it: the
\* cast to {shouldAct: boolean, ...} checks nothing at run time.
ParsedShouldAct(member) ==
  CASE member = "act" -> "true"
    [] member = "idle" -> "false"
    [] member = "act_text" -> "yes"
    [] member = "act_null" -> "null"

\* JSON.parse of the matched text: an object, or a SyntaxError.
JsonParse(matched) ==
  IF matched = << "{", "}" >>
  THEN [ok |-> TRUE, shouldAct |-> "undefined", reasoning |-> "undefined",
        suggestedAction |-> "undefined"]
  ELSE IF Len(matched) = 3 /\ matched[1] = "{" /\ matched[3] = "}" /\ matched[2] \in Members
  THEN [ok |-> TRUE,
        shouldAct |-> ParsedShouldAct(matched[2]),
        reasoning |-> "text",
        suggestedAction |-> IF matched[2] = "idle" THEN "undefined" ELSE "text"]
  ELSE [ok |-> FALSE, shouldAct |-> "undefined", reasoning |-> "undefined",
        suggestedAction |-> "undefined"]

\* The try block of evaluateEvent for one outcome of the model call.
Evaluate(outcome) ==
  IF outcome.kind = "throws" THEN EvaluationFailedResult
  ELSE LET content == IF outcome.kind = "null" THEN <<>> ELSE outcome.content
           jsonMatch == JsonMatch(content)
           result == JsonParse(jsonMatch)
       IN IF jsonMatch = <<>> THEN ParseFailureResult
          ELSE IF ~result.ok THEN EvaluationFailedResult
          ELSE ProactiveResult(result.shouldAct, result.reasoning, result.suggestedAction,
                               "undefined")

InitEval ==
  /\ epc = "start"
  /\ instructionCount \in 0..MaxInstructions
  /\ event \in EventTypes
  /\ autoExecute \in BOOLEAN
  /\ modelReply = NoModelReply
  /\ evaluation = NoProactiveResult
  /\ evalModelCalls = 0
  /\ agentRuns = 0
  /\ processResult = NoProactiveResult

EvalIdle ==
  /\ epc = "off"
  /\ instructionCount = 0
  /\ event = "new_email"
  /\ autoExecute = FALSE
  /\ modelReply = NoModelReply
  /\ evaluation = NoProactiveResult
  /\ evalModelCalls = 0
  /\ agentRuns = 0
  /\ processResult = NoProactiveResult

\* processEvent calls evaluateEvent: getActiveInstructions and the test of its length.
EvaluateEventInstructions ==
  /\ epc = "start"
  /\ IF NoInstructions(getActiveInstructions)
     THEN /\ evaluation' = NoInstructionsResult
          /\ epc' = "evaluated"
     ELSE /\ UNCHANGED evaluation
          /\ epc' = "model"
  /\ UNCHANGED <<instructionCount, event, autoExecute, modelReply, evalModelCalls, agentRuns,
                 processResult>>
  /\ UNCHANGED outsideEval

\* evaluateEvent: the model call and the parse of its reply.
EvaluateEventModelCall ==
  /\ epc = "model"
  /\ \E outcome \in ModelOutcomes :
       /\ modelReply' = outcome
       /\ evaluation' = Evaluate(outcome)
  /\ evalModelCalls' = evalModelCalls + 1
  /\ epc' = "evaluated"
  /\ UNCHANGED <<instructionCount, event, autoExecute, agentRuns, processResult>>
  /\ UNCHANGED outsideEval

\* processEvent after the evaluation: return it, or go on to execute.
ProcessEventDecision ==
  /\ epc = "evaluated"
  /\ IF ~Truthy(evaluation.shouldAct) \/ ~Truthy(evaluation.suggestedAction)
     THEN /\ processResult' = evaluation
          /\ epc' = "returned"
     ELSE IF autoExecute
     THEN /\ UNCHANGED processResult
          /\ epc' = "execute"
     ELSE /\ processResult' = evaluation
          /\ epc' = "returned"
  /\ UNCHANGED <<instructionCount, event, autoExecute, modelReply, evaluation, evalModelCalls,
                 agentRuns>>
  /\ UNCHANGED outsideEval

\* executeProactiveAction: one runAgent turn, which returns or throws.
ExecuteProactiveAction ==
  /\ epc = "execute"
  /\ agentRuns' = agentRuns + 1
  /\ \E runAgentOutcome \in {"returns", "throws"} :
       processResult' =
         ProactiveResult("true", evaluation.suggestedAction, "undefined",
                         IF runAgentOutcome = "returns" THEN "true" ELSE "false")
  /\ epc' = "returned"
  /\ UNCHANGED <<instructionCount, event, autoExecute, modelReply, evaluation, evalModelCalls>>
  /\ UNCHANGED outsideEval

NextEvalSteps ==
  \/ EvaluateEventInstructions
  \/ EvaluateEventModelCall
  \/ ProcessEventDecision
  \/ ExecuteProactiveAction

\* ---------------------------------------- properties of the proactive evaluator

\* C14: with zero active instructions evaluateEvent returns shouldAct = false
\* without a model call, for every event variant, and processEvent returns that
\* value without running the agent (so without any tool call).
C14_NoInstructionsNoModelCall ==
  instructionCount = 0 =>
    /\ evalModelCalls = 0
    /\ agentRuns = 0
    /\ epc \in {"evaluated", "returned"} => evaluation.shouldAct = "false"
    /\ epc = "returned" => processResult.shouldAct = "false"

\* C14 witness: processEvent has returned for a CRM note event of a user without
\* active instructions, auto-execution enabled.
C14_Witness ==
  /\ epc = "returned"
  /\ instructionCount = 0
  /\ event = "crm_note_added"
  /\ autoExecute

\* The reply holds no text from a "{" to a later "}", or that text is not JSON.
Unparsable(reply) ==
  \/ reply.kind = "null"
  \/ /\ reply.kind = "text"
     /\ \/ ~\E i, j \in 1..Len(reply.content) :
              i < j /\ reply.content[i] = "{" /\ reply.content[j] = "}"
        \/ ~JsonParse(JsonMatch(reply.content)).ok

\* C15: when the model call fails, or its reply is empty, holds no JSON object or
\* holds malformed JSON, evaluateEvent returns (it does not throw) shouldAct = false
\* with a non-empty reasoning string.
C15_UnparsableReplyIsNoAction ==
  (epc \in {"evaluated", "returned"} /\ (modelReply.kind = "throws" \/ Unparsable(modelReply)))
    => /\ evaluation.shouldAct = "false"
       /\ evaluation.reasoning \notin {"", "undefined", "none"}

\* C15 witness: the reply held a brace pair around something that is not JSON.
C15_Witness ==
  /\ epc = "returned"
  /\ modelReply.kind = "text"
  /\ JsonMatch(modelReply.content) # <<>>
  /\ ~JsonParse(JsonMatch(modelReply.content)).ok
  /\ processResult.shouldAct = "false"

\* The decision is one processEvent may act on: shouldAct is the boolean true, a
\* suggestedAction is present and auto-execution is enabled.
MayAct ==
  /\ evaluation.shouldAct = "true"
  /\ evaluation.suggestedAction \notin {"undefined", "null", "", "none"}
  /\ autoExecute

\* C30: processEvent runs the conversation loop only when shouldAct is the boolean
\* true, a suggestedAction is present and autoExecute is enabled; for every other
\* decision (shouldAct missing, null or not a boolean included) it returns the
\* decision and executes nothing.
C30_ActsOnlyOnBooleanTrue ==
  /\ (epc = "execute" \/ agentRuns > 0) => MayAct
  /\ (epc = "returned" /\ ~MayAct) => (agentRuns = 0 /\ processResult = evaluation)

\* The well-formed JSON objects of a reply text: where they start and how long
\* they are ("{}" or "{" member "}").
ObjectAt(content, i) ==
  IF i + 1 <= Len(content) /\ content[i] = "{" /\ content[i + 1] = "}"
  THEN SubSeq(content, i, i + 1)
  ELSE IF /\ i + 2 <= Len(content)
          /\ content[i] = "{"
          /\ content[i + 1] \in Members
          /\ content[i + 2] = "}"
  THEN SubSeq(content, i, i + 2)
  ELSE <<>>
ObjectStarts(content) == { i \in 1..Len(content) : ObjectAt(content, i) # <<>> }

\* C31: when the reply holds a well-formed JSON decision object with prose around
\* it (before, after or both, braces or a second object in the prose after it
\* included), evaluateEvent returns the decision of the first well-formed JSON
\* object of the reply.
C31_FirstObjectDecides ==
  ( /\ epc \in {"evaluated", "returned"}
    /\ modelReply.kind = "text"
    /\ ObjectStarts(modelReply.content) # {} )
  => LET i == CHOOSE k \in ObjectStarts(modelReply.content) :
                 \A j \in ObjectStarts(modelReply.content) : k <= j
         decision == JsonParse(ObjectAt(modelReply.content, i))
     IN /\ evaluation.shouldAct = decision.shouldAct
        /\ evaluation.reasoning = decision.reasoning
        /\ evaluation.suggestedAction = decision.suggestedAction

\* ------------------------------------------------------------------ chunker

DEFAULT_CHUNK_SIZE == 1500
DEFAULT_CHUNK_OVERLAP == 200
DEFAULT_MIN_CHUNK_SIZE == 100

\* Characters of the small texts: a letter, a space, a full stop, a newline.
Chars == {"a", " ", ".", "\n"}
Texts == UNION { [1..n -> Chars] : n \in 0..MaxTextLen }

\* Options of the small texts: chunkOverlap < chunkSize.
SmallOptions ==
  { o \in [chunkSize : {3, 4}, chunkOverlap : 0..2, minChunkSize : {1, 2}] :
      o.chunkOverlap < o.chunkSize }

\* A 3,000-character document without whitespace.
Document3000 == [i \in 1..3000 |-> "a"]

Min2(a, b) == IF a < b THEN a ELSE b
Max2(a, b) == IF a > b THEN a ELSE b
Greatest(S) == CHOOSE i \in S : \A j \in S : j <= i
Least(S) == CHOOSE i \in S : \A j \in S : i <= j

\* str.slice(from, to), offsets counted from 0; a negative offset counts from the end.
Slice(str, from, to) ==
  LET f == IF from < 0 THEN Max2(Len(str) + from, 0) ELSE Min2(from, Len(str))
      e == IF to < 0 THEN Max2(Len(str) + to, 0) ELSE Min2(to, Len(str))
  IN IF f >= e THEN <<>> ELSE SubSeq(str, f + 1, e)

\* str.trim()
IsWhitespace(c) == c \in {" ", "\n"}
Trim(str) ==
  LET solid == { i \in 1..Len(str) : ~IsWhitespace(str[i]) }
  IN IF solid = {} THEN <<>> ELSE SubSeq(str, Least(solid), Greatest(solid))

\* str.lastIndexOf(pattern, fromIndex): the last offset <= fromIndex where the
\* pattern starts, or -1.
LastIndexOf(str, pattern, fromIndex) ==
  LET upTo == Min2(Max2(fromIndex, 0), Len(str) - Len(pattern))
      found == { i \in 0..upTo : SubSeq(str, i + 1, i + Len(pattern)) = pattern }
  IN IF found = {} THEN -1 ELSE Greatest(found)

sentenceEnders ==
  << <<".", " ">>, <<"!", " ">>, <<"?", " ">>, <<".", "\n">>, <<"!", "\n">>, <<"?", "\n">> >>

\* The for loop of findSentenceBreak from ender number k on; twiceStart is twice
\* the (possibly fractional) start.
RECURSIVE SentenceBreakFrom(_, _, _, _, _)
SentenceBreakFrom(str, twiceStart, end, k, bestBreak) ==
  IF k > Len(sentenceEnders) THEN bestBreak
  ELSE LET pos == LastIndexOf(str, sentenceEnders[k], end)
       IN SentenceBreakFrom(str, twiceStart, end, k + 1,
                            IF 2 * pos > twiceStart /\ pos > bestBreak
                            THEN pos + Len(sentenceEnders[k]) ELSE bestBreak)

findSentenceBreak(str, twiceStart, end) == SentenceBreakFrom(str, twiceStart, end, 1, -1)

\* endIndex of the window that starts at from: the natural boundary chosen, the
\* full window, or the end of the text.
EndIndex(str, from, size) ==
  LET full == from + size
      twiceHalf == 2 * from + size
      paragraphBreak == LastIndexOf(str, <<"\n", "\n">>, full)
      sentenceBreak == findSentenceBreak(str, twiceHalf, full)
      wordBreak == LastIndexOf(str, <<" ">>, full)
  IN IF full < Len(str)
     THEN IF 2 * paragraphBreak > twiceHalf THEN paragraphBreak
          ELSE IF sentenceBreak > 0 THEN sentenceBreak
          ELSE IF 2 * wordBreak > twiceHalf THEN wordBreak
          ELSE full
     ELSE Len(str)

TextChunk(content, index, startChar, endChar) ==
  [content |-> content, index |-> index, startChar |-> startChar, endChar |-> endChar]

\* A chunker that keeps every window, however short its content.
KeepsChunkAlways(content, min) == TRUE

\* if (content.length >= minChunkSize)
KeepsChunk(content, min) == Len(content) >= min

\* startIndex after a pass: endIndex - chunkOverlap, or endIndex when that is not
\* beyond the start of the last chunk (no last chunk: the comparison is false).
NextStartIndex(end, overlap, pushed) ==
  IF pushed # <<>> /\ end - overlap <= pushed[Len(pushed)].startChar
  THEN end
  ELSE end - overlap

InitChunk ==
  /\ cpc = "start"
  /\ \/ /\ text \in Texts
        /\ \E o \in SmallOptions :
             /\ chunkSize = o.chunkSize
             /\ chunkOverlap = o.chunkOverlap
             /\ minChunkSize = o.minChunkSize
     \/ /\ text = Document3000
        /\ chunkSize = DEFAULT_CHUNK_SIZE
        /\ chunkOverlap = DEFAULT_CHUNK_OVERLAP
        /\ minChunkSize = DEFAULT_MIN_CHUNK_SIZE
  /\ startIndex = 0
  /\ chunkIndex = 0
  /\ chunks = <<>>
  /\ passes = 0

ChunkIdle ==
  /\ cpc = "off"
  /\ text = <<>>
  /\ chunkSize = DEFAULT_CHUNK_SIZE
  /\ chunkOverlap = DEFAULT_CHUNK_OVERLAP
  /\ minChunkSize = DEFAULT_MIN_CHUNK_SIZE
  /\ startIndex = 0
  /\ chunkIndex = 0
  /\ chunks = <<>>
  /\ passes = 0

\* chunkText up to its loop: the early return for an empty or short text.
ChunkTextStart ==
  /\ cpc = "start"
  /\ IF text = <<>> \/ Len(text) < minChunkSize
     THEN /\ chunks' = IF text = <<>> THEN <<>>
                       ELSE << TextChunk(text, 0, 0, Len(text)) >>
          /\ cpc' = "returned"
     ELSE /\ UNCHANGED chunks
          /\ cpc' = "loop"
  /\ UNCHANGED <<text, chunkSize, chunkOverlap, minChunkSize, startIndex, chunkIndex, passes>>
  /\ UNCHANGED outsideChunk

\* One pass of the while loop.
ChunkTextPass ==
  /\ cpc = "loop"
  /\ startIndex < Len(text)
  /\ passes < MaxPasses
  /\ LET endIndex == EndIndex(text, startIndex, chunkSize)
         content == Trim(Slice(text, startIndex, endIndex))
         pushed == IF KeepsChunk(content, minChunkSize)
                   THEN Append(chunks, TextChunk(content, chunkIndex, startIndex, endIndex))
                   ELSE chunks
     IN /\ chunks' = pushed
        /\ chunkIndex' = IF KeepsChunk(content, minChunkSize) THEN chunkIndex + 1
                         ELSE chunkIndex
        /\ startIndex' = NextStartIndex(endIndex, chunkOverlap, pushed)
  /\ passes' = passes + 1
  /\ UNCHANGED <<cpc, text, chunkSize, chunkOverlap, minChunkSize>>
  /\ UNCHANGED outsideChunk

\* Exit of the while loop: return chunks.
ChunkTextReturn ==
  /\ cpc = "loop"
  /\ ~(startIndex < Len(text))
  /\ cpc' = "returned"
  /\ UNCHANGED <<text, chunkSize, chunkOverlap, minChunkSize, startIndex, chunkIndex, chunks,
                 passes>>
  /\ UNCHANGED outsideChunk

NextChunkSteps ==
  \/ ChunkTextStart
  \/ ChunkTextPass
  \/ ChunkTextReturn

\* Offsets of the text that lie inside the span of some chunk.
CoveredOffsets == { i \in 0..(Len(text) - 1) :
                      \E k \in 1..Len(chunks) :
                        chunks[k].startChar <= i /\ i < chunks[k].endChar }

\* C16: every pass of chunkText's loop strictly increases the start offset, a
\* discarded window and the passes before the first chunk included, so the loop
\* terminates for every text and every options with chunkOverlap < chunkSize.
C16_StartOffsetIncreases ==
  [][cpc = "loop" /\ passes' = passes + 1 => startIndex' > startIndex]_vars

\* C17: the chunks chunkText returns cover the text: every character of the
\* text lies in the span of some chunk.
C17_ChunksCoverText ==
  cpc = "returned" => CoveredOffsets = 0..(Len(text) - 1)

\* C18: in a result of more than one chunk every content is at least
\* minChunkSize long; a shorter chunk is the single chunk of a text shorter than
\* minChunkSize.
C18_NoShortChunks ==
  \A k \in 1..Len(chunks) :
    Len(chunks[k].content) < minChunkSize =>
      /\ Len(chunks) = 1
      /\ Len(text) < minChunkSize

\* A returned result of two chunks or more, made by a run that discarded a window.
C18_Witness ==
  /\ cpc = "returned"
  /\ Len(chunks) > 1
  /\ passes > Len(chunks)

\* C19: a 3,000-character document chunked with chunkSize 1500 and chunkOverlap
\* 200 gives exactly two chunks, and the last 200 characters of the first are
\* the first 200 characters of the second.
C19_TwoChunksOf3000 ==
  (/\ cpc = "returned"
   /\ Len(text) = 3000
   /\ chunkSize = 1500
   /\ chunkOverlap = 200)
  => /\ Len(chunks) = 2
     /\ SubSeq(chunks[1].content, Len(chunks[1].content) - 199, Len(chunks[1].content))
          = SubSeq(chunks[2].content, 1, 200)

\* ---------------------------------------------------------------- ingestion

SourceIds == {1, 2}
Versions == {"old", "new"}

\* A document as chunkEmail or chunkContact returns it: the chunks of one
\* version of the content, chunk i holding <<version, i>>.
Documents == [version : Versions, pieces : 0..MaxPieces]
ChunkContent(doc, i) == <<doc.version, i>>

\* A row of the embeddings table; id is the chunk number in the primary key
\* (emb_<id>_<i>, emb_hs_<id>_<i>), chunkIndex is metadata.chunkIndex.
EmbeddingRow(source, sourceId, i, content) ==
  [source |-> source, sourceId |-> sourceId, id |-> i, chunkIndex |-> i, content |-> content]

RowsOf(table, source, sourceId) ==
  { r \in table : r.source = source /\ r.sourceId = sourceId }

NoIngest ==
  [source |-> "none", sourceId |-> 0, version |-> "none", pieces |-> 0,
   wasIndexed |-> FALSE, embedFailed |-> FALSE, returned |-> 0]

Ingested(source, sourceId, doc, wasIndexed, embedFailed, returned) ==
  [source |-> source, sourceId |-> sourceId, version |-> doc.version, pieces |-> doc.pieces,
   wasIndexed |-> wasIndexed, embedFailed |-> embedFailed, returned |-> returned]

InsertOutcome(table, threw) == [table |-> table, threw |-> threw]

\* The INSERT ... ON CONFLICT (source, "sourceId") DO UPDATE statements of
\* ingestEmail for chunks i .. pieces - 1.  Without a unique key on the conflict
\* target the statement is rejected; with it, a row of the same source is
\* updated in place.
RECURSIVE EmailInserts(_, _, _, _)
EmailInserts(table, sourceId, doc, i) ==
  IF i >= doc.pieces THEN InsertOutcome(table, FALSE)
  ELSE IF ~uniqueSourceKey THEN InsertOutcome(table, TRUE)
  ELSE LET present == RowsOf(table, "gmail", sourceId)
           updated == { [r EXCEPT !.content = ChunkContent(doc, i), !.chunkIndex = i] :
                        r \in present }
           after == IF present = {}
                    THEN table \cup {EmbeddingRow("gmail", sourceId, i, ChunkContent(doc, i))}
                    ELSE (table \ present) \cup updated
       IN EmailInserts(after, sourceId, doc, i + 1)

\* The plain INSERT statements of ingestContact for chunks i .. pieces - 1: a
\* row that breaks the unique key or the primary key makes the statement throw,
\* and the rows inserted before it stay.
RECURSIVE ContactInserts(_, _, _, _)
ContactInserts(table, sourceId, doc, i) ==
  IF i >= doc.pieces THEN InsertOutcome(table, FALSE)
  ELSE LET present == RowsOf(table, "hubspot", sourceId)
       IN IF (uniqueSourceKey /\ present # {}) \/ (\E r \in present : r.id = i)
          THEN InsertOutcome(table, TRUE)
          ELSE ContactInserts(
                 table \cup {EmbeddingRow("hubspot", sourceId, i, ChunkContent(doc, i))},
                 sourceId, doc, i + 1)

\* if (existing) return 0
SkipsIndexedEmail(existing) == existing # {}

InitRag ==
  /\ embeddings = {}
  /\ uniqueSourceKey \in BOOLEAN
  /\ lastIngest = NoIngest
  /\ ingests = 0

RagIdle ==
  /\ embeddings = {}
  /\ uniqueSourceKey = FALSE
  /\ lastIngest = NoIngest
  /\ ingests = 0

\* ingestEmail(userId, email)
IngestEmail ==
  /\ ingests < MaxIngests
  /\ \E sourceId \in SourceIds, doc \in Documents, embedOk \in BOOLEAN :
       LET existing == RowsOf(embeddings, "gmail", sourceId)
           outcome == EmailInserts(embeddings, sourceId, doc, 0)
       IN IF SkipsIndexedEmail(existing) \/ doc.pieces = 0 \/ ~embedOk
          THEN /\ UNCHANGED embeddings
               /\ lastIngest' = Ingested("gmail", sourceId, doc, existing # {},
                                         ~SkipsIndexedEmail(existing) /\ doc.pieces # 0, 0)
          ELSE /\ embeddings' = outcome.table
               /\ lastIngest' = Ingested("gmail", sourceId, doc, existing # {}, FALSE,
                                         IF outcome.threw THEN 0 ELSE doc.pieces)
  /\ ingests' = ingests + 1
  /\ UNCHANGED uniqueSourceKey
  /\ UNCHANGED outsideRag

\* ingestContact(userId, contact, notes)
IngestContact ==
  /\ ingests < MaxIngests
  /\ \E sourceId \in SourceIds, doc \in Documents, embedOk \in BOOLEAN :
       LET existing == RowsOf(embeddings, "hubspot", sourceId)
           \* DELETE FROM embeddings WHERE ... "sourceId" = contact.id
           outcome == ContactInserts(embeddings \ existing, sourceId, doc, 0)
       IN IF doc.pieces = 0 \/ ~embedOk
          THEN /\ UNCHANGED embeddings
               /\ lastIngest' = Ingested("hubspot", sourceId, doc, existing # {},
                                         doc.pieces # 0, 0)
          ELSE /\ embeddings' = outcome.table
               /\ lastIngest' = Ingested("hubspot", sourceId, doc, existing # {}, FALSE,
                                         IF outcome.threw THEN 0 ELSE doc.pieces)
  /\ ingests' = ingests + 1
  /\ UNCHANGED uniqueSourceKey
  /\ UNCHANGED outsideRag

NextRagSteps ==
  \/ IngestEmail
  \/ IngestContact

\* The rows a document of the given version and pieces should be stored as.
ExpectedRows(source, sourceId, version, pieces) ==
  { [source |-> source, sourceId |-> sourceId, chunkIndex |-> i, content |-> <<version, i>>] :
    i \in 0..(pieces - 1) }

StoredRows(source, sourceId) ==
  { [source |-> r.source, sourceId |-> r.sourceId, chunkIndex |-> r.chunkIndex,
     content |-> r.content] : r \in RowsOf(embeddings, source, sourceId) }

\* C20: after an indexed email or contact is ingested again with content of M
\* chunks (the embedding service not failing), the table holds exactly M rows
\* for that source, with chunk indexes 0..M-1 and the new content.
C20_ReingestReplaces ==
  (/\ lastIngest.wasIndexed
   /\ lastIngest.pieces >= 1
   /\ ~lastIngest.embedFailed)
  => StoredRows(lastIngest.source, lastIngest.sourceId)
       = ExpectedRows(lastIngest.source, lastIngest.sourceId, lastIngest.version,
                      lastIngest.pieces)

\* ------------------------------------------------------------------- search

EmbeddingSources == {"gmail", "hubspot"}
Scores == 1..3                 \* similarity to the query, in tiers
Limits == {1, 2}

\* A row of the table as the SELECT of searchRAG sees it.
SearchRow(id, owner, source, score) ==
  [id |-> id, userId |-> owner, source |-> source, score |-> score]

RowShapes == [userId : Users, source : EmbeddingSources, score : Scores]

SearchTables ==
  UNION { { { SearchRow(i, f[i].userId, f[i].source, f[i].score) : i \in 1..n } :
            f \in [1..n -> RowShapes] } : n \in 0..MaxRows }

\* options.sources: absent, or a list of sources.
SourcesOptions ==
  {[given |-> FALSE, list |-> {}]} \cup
  { [given |-> TRUE, list |-> l] : l \in SUBSET EmbeddingSources }

NoSearchCall ==
  [made |-> FALSE, userId |-> "none", sources |-> [given |-> FALSE, list |-> {}],
   limit |-> 0, minScore |-> 0, failed |-> FALSE]

\* The condition of line 226,
\*   sources && sources.length > 0 && !sources.includes('gmail')
\*     || !sources?.includes('hubspot')
BuildsSourceFilter(sources) ==
  \/ sources.given /\ sources.list # {} /\ "gmail" \notin sources.list
  \/ ~(sources.given /\ "hubspot" \in sources.list)

\* Building the filter throws (sources.map on undefined), or the query it makes
\* is rejected (source IN ()).
SourceFilterFails(sources) ==
  BuildsSourceFilter(sources) /\ (~sources.given \/ sources.list = {})

\* The sources the WHERE clause lets through.
FilteredSources(sources) ==
  IF BuildsSourceFilter(sources) THEN sources.list ELSE EmbeddingSources

\* WHERE "userId" = $1 AND source IN (...)
Selected(rows, owner, sources) ==
  { r \in rows : r.userId = owner /\ r.source \in FilteredSources(sources) }

\* ORDER BY embedding <=> query: every order of the rows by non-increasing score.
Ordered(rows) ==
  { q \in [1..Cardinality(rows) -> rows] :
      /\ \A i, j \in 1..Cardinality(rows) : i # j => q[i] # q[j]
      /\ \A i \in 1..(Cardinality(rows) - 1) : q[i].score >= q[i + 1].score }

\* LIMIT $2
Limited(q, limit) == SubSeq(q, 1, IF Len(q) < limit THEN Len(q) ELSE limit)

\* .filter((r) => r.score >= minScore)
RECURSIVE FilterByScore(_, _)
FilterByScore(q, minScore) ==
  IF q = <<>> THEN <<>>
  ELSE IF Head(q).score >= minScore
       THEN <<Head(q)>> \o FilterByScore(Tail(q), minScore)
       ELSE FilterByScore(Tail(q), minScore)

InitSearch ==
  /\ searchRows \in SearchTables
  /\ searchCall = NoSearchCall
  /\ searchResults = <<>>

SearchIdle ==
  /\ searchRows = {}
  /\ searchCall = NoSearchCall
  /\ searchResults = <<>>

\* searchRAG(userId, query, {sources, limit, minScore})
SearchRAG ==
  /\ ~searchCall.made
  /\ \E owner \in Users, sources \in SourcesOptions, limit \in Limits, minScore \in Scores,
        embedOk \in BOOLEAN, storeOk \in BOOLEAN :
       /\ searchCall' = [made |-> TRUE, userId |-> owner, sources |-> sources,
                         limit |-> limit, minScore |-> minScore,
                         failed |-> ~embedOk \/ ~storeOk]
       /\ IF ~embedOk \/ SourceFilterFails(sources) \/ ~storeOk
          THEN searchResults' = <<>>
          ELSE \E q \in Ordered(Selected(searchRows, owner, sources)) :
                 searchResults' = FilterByScore(Limited(q, limit), minScore)
  /\ UNCHANGED searchRows
  /\ UNCHANGED outsideSearch

NextSearchSteps ==
  \/ SearchRAG

\* The rows of the call's scope that reach its minimum score.
Eligible ==
  { r \in searchRows :
      /\ r.userId = searchCall.userId
      /\ (searchCall.sources.given /\ searchCall.sources.list # {})
           => r.source \in searchCall.sources.list
      /\ r.score >= searchCall.minScore }

ReturnedRows == { searchResults[i] : i \in 1..Len(searchResults) }

\* C21: searchRAG returns only rows of the caller, at most limit of them, each
\* with score >= minScore, in non-increasing order of score, and they are the
\* highest-scoring such rows of the scope; on an embedding or store failure it
\* returns the empty list.
C21_SearchReturnsTopOfScope ==
  searchCall.made =>
    IF searchCall.failed THEN searchResults = <<>>
    ELSE /\ ReturnedRows \subseteq Eligible
         /\ Len(searchResults) =
              IF Cardinality(Eligible) < searchCall.limit THEN Cardinality(Eligible)
              ELSE searchCall.limit
         /\ Cardinality(ReturnedRows) = Len(searchResults)
         /\ \A i \in 1..(Len(searchResults) - 1) :
              searchResults[i].score >= searchResults[i + 1].score
         /\ \A r \in Eligible \ ReturnedRows : \A k \in ReturnedRows : r.score <= k.score

\* The call names no source kinds: sources is absent or empty.
Unrestricted == ~searchCall.sources.given \/ searchCall.sources.list = {}

\* The caller's rows of every source kind that reach the minimum score.
PassingRows ==
  { r \in searchRows : r.userId = searchCall.userId /\ r.score >= searchCall.minScore }

\* C32: with no source restriction (sources absent or empty) searchRAG searches
\* the caller's vectors of every source kind and returns those that pass limit
\* and minScore; with a subset of source kinds it returns rows of those kinds only.
C32_SourceRestriction ==
  (searchCall.made /\ ~searchCall.failed) =>
    IF Unrestricted
    THEN /\ ReturnedRows \subseteq PassingRows
         /\ Len(searchResults) =
              IF Cardinality(PassingRows) < searchCall.limit THEN Cardinality(PassingRows)
              ELSE searchCall.limit
    ELSE \A r \in ReturnedRows : r.source \in searchCall.sources.list

\* ----------------------------------------- re-ingestion, statement by statement

NoReingest ==
  [source |-> "none", sourceId |-> 0, pieces |-> 0, i |-> 0, before |-> {},
   failed |-> FALSE, returned |-> 0]

NotObserved == [read |-> FALSE, rows |-> {}]

\* The table after earlier, completed calls of ingestEmail and ingestContact
\* stored the old version of email 1 and of contact 1.
StoredBefore(emailPieces, contactPieces) ==
  LET emails == EmailInserts({}, 1, [version |-> "old", pieces |-> emailPieces], 0).table
  IN ContactInserts(emails, 1, [version |-> "old", pieces |-> contactPieces], 0).table

InitReingest ==
  /\ rpc = "idle"
  /\ reingest = NoReingest
  /\ observed = NotObserved

\* The ingestion tables as the earlier ingestions left them.
InitStored ==
  /\ uniqueSourceKey \in BOOLEAN
  /\ \E emailPieces \in 1..MaxPieces, contactPieces \in 1..MaxPieces :
       embeddings = StoredBefore(emailPieces, contactPieces)
  /\ lastIngest = NoIngest
  /\ ingests = 0

ReingestIdle ==
  /\ rpc = "off"
  /\ reingest = NoReingest
  /\ observed = NotObserved

\* ingestEmail of an email: findFirst, and the return of an indexed one.
IngestEmailIndexed ==
  /\ rpc = "idle"
  /\ \E sourceId \in SourceIds :
       LET existing == RowsOf(embeddings, "gmail", sourceId) IN
       /\ SkipsIndexedEmail(existing)
       /\ reingest' = [NoReingest EXCEPT !.source = "gmail", !.sourceId = sourceId,
                                         !.before = existing]
  /\ rpc' = "returned"
  /\ UNCHANGED observed
  /\ UNCHANGED outsideReingest

\* ingestContact up to the DELETE: chunkContact, the empty test, generateEmbeddings.
IngestContactChunk ==
  /\ rpc = "idle"
  /\ \E sourceId \in SourceIds, pieces \in 0..MaxPieces, embedOk \in BOOLEAN :
       /\ reingest' = [NoReingest EXCEPT !.source = "hubspot", !.sourceId = sourceId,
                                         !.pieces = pieces,
                                         !.before = RowsOf(embeddings, "hubspot", sourceId),
                                         !.failed = pieces # 0 /\ ~embedOk]
       /\ rpc' = IF pieces = 0 \/ ~embedOk THEN "returned" ELSE "embedded"
  /\ UNCHANGED observed
  /\ UNCHANGED outsideReingest

\* DELETE FROM embeddings WHERE ... source = 'hubspot' AND "sourceId" = contact.id
IngestContactDelete ==
  /\ rpc = "embedded"
  /\ \E storeOk \in BOOLEAN :
       IF storeOk
       THEN /\ embeddings' = embeddings \ RowsOf(embeddings, "hubspot", reingest.sourceId)
            /\ rpc' = "insert"
            /\ UNCHANGED reingest
       ELSE /\ UNCHANGED embeddings
            /\ rpc' = "returned"
            /\ reingest' = [reingest EXCEPT !.failed = TRUE]
  /\ UNCHANGED <<uniqueSourceKey, lastIngest, ingests, observed>>
  /\ UNCHANGED outsideIngestion

\* One pass of the for loop: the INSERT of chunk i, which the store may reject.
IngestContactInsert ==
  /\ rpc = "insert"
  /\ reingest.i < reingest.pieces
  /\ \E storeOk \in BOOLEAN :
       LET doc == [version |-> "new", pieces |-> reingest.i + 1]
           outcome == ContactInserts(embeddings, reingest.sourceId, doc, reingest.i)
       IN IF storeOk /\ ~outcome.threw
          THEN /\ embeddings' = outcome.table
               /\ reingest' = [reingest EXCEPT !.i = reingest.i + 1]
               /\ rpc' = "insert"
          ELSE /\ UNCHANGED embeddings
               /\ reingest' = [reingest EXCEPT !.failed = TRUE]
               /\ rpc' = "returned"
  /\ UNCHANGED <<uniqueSourceKey, lastIngest, ingests, observed>>
  /\ UNCHANGED outsideIngestion

\* return chunks.length
IngestContactReturn ==
  /\ rpc = "insert"
  /\ reingest.i = reingest.pieces
  /\ reingest' = [reingest EXCEPT !.returned = reingest.pieces]
  /\ rpc' = "returned"
  /\ UNCHANGED observed
  /\ UNCHANGED outsideReingest

\* A search or a getRAGStats count of another caller, run while the ingestion is
\* between two of its statements or after it: the rows of the source it reads.
ReadSource ==
  /\ rpc \in {"embedded", "insert", "returned"}
  /\ observed' = [read |-> TRUE, rows |-> StoredRows(reingest.source, reingest.sourceId)]
  /\ UNCHANGED <<rpc, reingest>>
  /\ UNCHANGED outsideReingest

NextReingestSteps ==
  \/ IngestEmailIndexed
  \/ IngestContactChunk
  \/ IngestContactDelete
  \/ IngestContactInsert
  \/ IngestContactReturn
  \/ ReadSource

\* The rows of the source before the ingestion began, as a reader sees them.
OldRows ==
  { [source |-> r.source, sourceId |-> r.sourceId, chunkIndex |-> r.chunkIndex,
     content |-> r.content] : r \in reingest.before }

\* C33: re-ingestion is atomic for other callers: a search or count running
\* while ingestContact or ingestEmail re-ingests a source sees all of the
\* source's old rows or all of its new rows, never none or a mixture, and an
\* ingestion that fails part-way leaves the old rows in place.
C33_ReingestAtomic ==
  reingest.before # {} =>
    /\ observed.read =>
         observed.rows \in
           { OldRows,
             ExpectedRows(reingest.source, reingest.sourceId, "new", reingest.pieces) }
    /\ (rpc = "returned" /\ reingest.failed) =>
         StoredRows(reingest.source, reingest.sourceId) = OldRows

\* ------------------------------------------------------------- email poller

PollUsers == <<"u1", "u2">>                 \* the rows findMany returns, in order
PollUserSet == {"u1", "u2"}
EmailKinds == {"reply", "other"}            \* from the sender a task waits for, or not
MailIds == 1..MaxMail

NoResume == [user |-> "none", email |-> 0, kind |-> "none"]

\* Emails delivered so far, all users together.
Delivered == Len(mailbox["u1"]) + Len(mailbox["u2"])

\* Strictly increasing index lists over 1..n: the unread ones among listEmails.
IncreasingLists(n) ==
  UNION { { q \in [1..k -> 1..n] : \A i \in 1..(k - 1) : q[i] < q[i + 1] } : k \in 0..n }

\* The indexes h+1 .. n: the messages history.list reports since history id h.
Since(h, n) == [i \in 1..(n - h) |-> h + i]

\* resumeFromReply as the poller sees it: the workflow went through, it ended
\* failed (executeStep's catch), or the call threw (getTask or updateTask
\* rejected) before or after its first write.
ResumeOutcomes ==
  { [kind |-> "completed", status |-> "completed"],
    [kind |-> "failed", status |-> "failed"],
    [kind |-> "throws", status |-> "waiting_reply"],
    [kind |-> "throws", status |-> "in_progress"] }

\* A checkForTaskReply without try/catch: the error reaches pollUserEmails.
AfterResumeUncaught(kind) == IF kind = "throws" THEN "abandon" ELSE "next_email"

\* try { ... } catch (error) { console.error(...) } of checkForTaskReply
AfterResume(kind) == "next_email"

InitPoller ==
  /\ ppc = "idle"
  /\ pollRemaining = <<>>
  /\ mailbox = [u \in PollUserSet |-> <<>>]
  /\ gmailHistoryId = [u \in PollUserSet |-> 0]
  /\ pollBatch = <<>>
  /\ pollIndex = 1
  /\ taskStatus \in [PollUserSet -> {"none", "waiting_reply"}]
  /\ checkedEmails = [u \in PollUserSet |-> {}]
  /\ lastResume = NoResume

PollerIdle ==
  /\ ppc = "off"
  /\ pollRemaining = <<>>
  /\ mailbox = [u \in PollUserSet |-> <<>>]
  /\ gmailHistoryId = [u \in PollUserSet |-> 0]
  /\ pollBatch = <<>>
  /\ pollIndex = 1
  /\ taskStatus = [u \in PollUserSet |-> "none"]
  /\ checkedEmails = [u \in PollUserSet |-> {}]
  /\ lastResume = NoResume

\* The mail source receives an email for a user.
DeliverEmail ==
  /\ Delivered < MaxMail
  /\ \E u \in PollUserSet, kind \in EmailKinds :
       mailbox' = [mailbox EXCEPT ![u] = Append(@, kind)]
  /\ UNCHANGED <<ppc, pollRemaining, gmailHistoryId, pollBatch, pollIndex, taskStatus,
                 checkedEmails, lastResume>>
  /\ UNCHANGED outsidePoller

\* The timer fires: pollAllUsers reads the users and enters its for loop.
PollAllUsers ==
  /\ ppc = "idle"
  /\ pollRemaining' = PollUsers
  /\ ppc' = "sync"
  /\ UNCHANGED <<mailbox, gmailHistoryId, pollBatch, pollIndex, taskStatus, checkedEmails,
                 lastResume>>
  /\ UNCHANGED outsidePoller

\* pollUserEmails up to its for loop: the incremental sync and the write of the
\* new history id; or the full sync (listEmails, cacheEmail of each, the unread
\* ones as newEmails, the write of the history id); or nothing, when the mail
\* source gives no history id; an error on the way is caught and 0 returned.
PollUserEmailsSync ==
  /\ ppc = "sync"
  /\ pollRemaining # <<>>
  /\ LET u == Head(pollRemaining)
         n == Len(mailbox[u])
     IN \E outcome \in {"incremental", "full", "none", "throws"} :
          CASE outcome = "incremental" ->
                 /\ pollBatch' = Since(gmailHistoryId[u], n)
                 /\ gmailHistoryId' = [gmailHistoryId EXCEPT ![u] = n]
                 /\ ppc' = "cache"
                 /\ UNCHANGED pollRemaining
            [] outcome = "full" ->
                 /\ \E unread \in IncreasingLists(n) : pollBatch' = unread
                 /\ gmailHistoryId' = [gmailHistoryId EXCEPT ![u] = n]
                 /\ ppc' = "cache"
                 /\ UNCHANGED pollRemaining
            [] OTHER ->
                 /\ pollBatch' = <<>>
                 /\ UNCHANGED gmailHistoryId
                 /\ pollRemaining' = Tail(pollRemaining)
                 /\ ppc' = "sync"
  /\ pollIndex' = 1
  /\ UNCHANGED <<mailbox, taskStatus, checkedEmails, lastResume>>
  /\ UNCHANGED outsidePoller

\* await cacheEmail(userId, email) in the for loop: the upsert goes through, or
\* it throws and the catch of pollUserEmails returns 0.
CacheEmail ==
  /\ ppc = "cache"
  /\ pollIndex <= Len(pollBatch)
  /\ \E upsertOk \in BOOLEAN :
       IF upsertOk
       THEN /\ ppc' = "check"
            /\ UNCHANGED <<pollRemaining, pollBatch, pollIndex>>
       ELSE /\ ppc' = "sync"
            /\ pollRemaining' = Tail(pollRemaining)
            /\ pollBatch' = <<>>
            /\ pollIndex' = 1
  /\ UNCHANGED <<mailbox, gmailHistoryId, taskStatus, checkedEmails, lastResume>>
  /\ UNCHANGED outsidePoller

\* await checkForTaskReply(userId, email): findTaskWaitingForEmail and, for a
\* task found, resumeFromReply.
PollerCheckForTaskReply ==
  /\ ppc = "check"
  /\ LET u == Head(pollRemaining)
         e == pollBatch[pollIndex]
         found == mailbox[u][e] = "reply" /\ taskStatus[u] = "waiting_reply"
     IN /\ checkedEmails' = [checkedEmails EXCEPT ![u] = @ \cup {e}]
        /\ IF found
           THEN \E outcome \in ResumeOutcomes :
                  /\ taskStatus' = [taskStatus EXCEPT ![u] = outcome.status]
                  /\ lastResume' = [user |-> u, email |-> e, kind |-> outcome.kind]
                  /\ IF AfterResume(outcome.kind) = "next_email"
                     THEN /\ pollIndex' = pollIndex + 1
                          /\ ppc' = "cache"
                          /\ UNCHANGED <<pollRemaining, pollBatch>>
                     ELSE /\ pollIndex' = 1
                          /\ ppc' = "sync"
                          /\ pollRemaining' = Tail(pollRemaining)
                          /\ pollBatch' = <<>>
           ELSE /\ lastResume' = [user |-> u, email |-> e, kind |-> "none"]
                /\ pollIndex' = pollIndex + 1
                /\ ppc' = "cache"
                /\ UNCHANGED <<taskStatus, pollRemaining, pollBatch>>
  /\ UNCHANGED <<mailbox, gmailHistoryId>>
  /\ UNCHANGED outsidePoller

\* The for loop of pollUserEmails is over: return newEmails.length.
PollUserEmailsReturn ==
  /\ ppc = "cache"
  /\ pollIndex > Len(pollBatch)
  /\ pollRemaining' = Tail(pollRemaining)
  /\ pollBatch' = <<>>
  /\ pollIndex' = 1
  /\ ppc' = "sync"
  /\ UNCHANGED <<mailbox, gmailHistoryId, taskStatus, checkedEmails, lastResume>>
  /\ UNCHANGED outsidePoller

\* The for loop of pollAllUsers is over: the cycle ends, the timer is left armed.
PollAllUsersReturn ==
  /\ ppc = "sync"
  /\ pollRemaining = <<>>
  /\ ppc' = "idle"
  /\ UNCHANGED <<pollRemaining, mailbox, gmailHistoryId, pollBatch, pollIndex, taskStatus,
                 checkedEmails, lastResume>>
  /\ UNCHANGED outsidePoller

\* The steps of the poller itself.
PollerProcess ==
  \/ PollAllUsers
  \/ PollUserEmailsSync
  \/ CacheEmail
  \/ PollerCheckForTaskReply
  \/ PollUserEmailsReturn
  \/ PollAllUsersReturn

\* A step in which a resume fails: the call throws or the workflow ends failed.
ResumeFails ==
  /\ ppc = "check"
  /\ lastResume' # lastResume \/ checkedEmails' # checkedEmails
  /\ lastResume'.kind \in {"throws", "failed"}
  /\ mailbox[Head(pollRemaining)][pollBatch[pollIndex]] = "reply"
  /\ taskStatus[Head(pollRemaining)] = "waiting_reply"

\* C35: a failure while resuming a task for one email does not stop the poller:
\* the loop goes on to the next email of the user with the users left to poll
\* unchanged, no other task changes, and poll cycles keep running.
C35_ResumeFailureContained ==
  /\ [][ ResumeFails =>
           /\ ppc' = "cache"
           /\ pollIndex' = pollIndex + 1
           /\ pollBatch' = pollBatch
           /\ pollRemaining' = pollRemaining
           /\ \A v \in PollUserSet \ {Head(pollRemaining)} : taskStatus'[v] = taskStatus[v]
       ]_vars
  /\ []<>(ppc = "idle")
  /\ []<>(ppc = "sync")

\* The resume for the first email of the first user ended failed, the user's
\* second email was checked all the same, and the cycle ran to its end.
C35_Witness ==
  /\ mailbox["u1"] = <<"reply", "other">>
  /\ taskStatus["u1"] = "failed"
  /\ checkedEmails["u1"] = {1, 2}
  /\ lastResume = [user |-> "u1", email |-> 2, kind |-> "none"]
  /\ ppc = "idle"

\* A sync has reported email e of user u, a reply the user's task waits for,
\* and the for loop has not reached it yet.
ReplyReported(u, e) ==
  /\ ppc \in {"cache", "check"}
  /\ pollRemaining # <<>>
  /\ Head(pollRemaining) = u
  /\ e <= Len(mailbox[u])
  /\ mailbox[u][e] = "reply"
  /\ taskStatus[u] = "waiting_reply"
  /\ \E k \in pollIndex..Len(pollBatch) : pollBatch[k] = e

\* C38: under fair scheduling of the poller, a reply that a sync reported for a
\* waiting task is checked against the waiting tasks (and the task so resumed):
\* an error while an email of the batch is cached or processed does not make
\* the poller skip the reply for good.
C38_ReportedReplyIsChecked ==
  \A u \in PollUserSet, e \in MailIds :
    ReplyReported(u, e) ~> (e \in checkedEmails[u])

\* ------------------------------------------------------------ specifications

LoopIdle ==
  /\ lpc = "off"
  /\ messages = <<>>
  /\ maxIterations = 0
  /\ iteration = 0
  /\ conversationMessages = <<>>
  /\ executedToolCalls = <<>>
  /\ toolCalls = <<>>
  /\ callIndex = 1
  /\ agentResult = NoAgentResult
  /\ modelCalls = 0
  /\ dispatched = <<>>
  /\ firstReply = NoReply
  /\ replies = <<>>
  /\ results = <<>>
  /\ collaborators = <<>>
  /\ inFlight = {}

StreamIdle ==
  /\ spc = "off"
  /\ streamIteration = 0
  /\ streamMessages = <<>>
  /\ streamExecuted = <<>>
  /\ streamToolCalls = <<>>
  /\ streamCallIndex = 1
  /\ events = <<>>
  /\ streamModelCalls = 0
  /\ streamDispatched = <<>>
  /\ streamInFlight = {}

WFIdle ==
  /\ tasks = [t \in TaskIds |-> NoTask]
  /\ nextTaskId = 1
  /\ byUpdatedAt = <<>>
  /\ flow = [f \in Flows |-> IdleFlow]
  /\ emailsSent = [t \in TaskIds |-> 0]
  /\ eventsCreated = [t \in TaskIds |-> 0]
  /\ notesCreated = [t \in TaskIds |-> 0]
  /\ confirmationsSent = [t \in TaskIds |-> 0]
  /\ opsBegun = MaxOps

\* executeTool called directly with every name, argument shape and service outcome.
InitSpecTool == InitTool /\ LoopIdle /\ StreamIdle /\ WFIdle /\ EvalIdle /\ ChunkIdle /\ RagIdle /\ SearchIdle /\ ReingestIdle /\ PollerIdle
NextTool == ExecuteToolCall
SpecTool == InitSpecTool /\ [][NextTool]_vars

\* One turn of runAgent.
InitSpecLoop == ToolIdle /\ InitLoop /\ StreamIdle /\ WFIdle /\ EvalIdle /\ ChunkIdle /\ RagIdle /\ SearchIdle /\ ReingestIdle /\ PollerIdle
NextLoop == NextLoopSteps
SpecLoop == InitSpecLoop /\ [][NextLoop]_vars
\* The turn is one async function: the runtime keeps running it until it returns.
SpecLoopFair == SpecLoop /\ WF_vars(NextLoop)

\* runAgent, then runAgentStream on the same history, replies and tool results.
InitStream ==
  /\ spc = "start"
  /\ streamIteration = 0
  /\ streamMessages = <<>>
  /\ streamExecuted = <<>>
  /\ streamToolCalls = <<>>
  /\ streamCallIndex = 1
  /\ events = <<>>
  /\ streamModelCalls = 0
  /\ streamDispatched = <<>>
  /\ streamInFlight = {}
InitSpecStream == ToolIdle /\ InitLoop /\ InitStream /\ WFIdle /\ EvalIdle /\ ChunkIdle /\ RagIdle /\ SearchIdle /\ ReingestIdle /\ PollerIdle
NextStream == NextLoopSteps \/ NextStreamSteps
SpecStream == InitSpecStream /\ [][NextStream]_vars

\* processEvent for every instruction count, event variant and model outcome.
InitSpecEval == ToolIdle /\ LoopIdle /\ StreamIdle /\ WFIdle /\ InitEval /\ ChunkIdle /\ RagIdle /\ SearchIdle /\ ReingestIdle /\ PollerIdle
NextEval == NextEvalSteps
SpecEval == InitSpecEval /\ [][NextEval]_vars

\* chunkText on every small text and option set, and on the 3,000-character document.
InitSpecChunk == ToolIdle /\ LoopIdle /\ StreamIdle /\ WFIdle /\ EvalIdle /\ InitChunk /\ RagIdle /\ SearchIdle /\ ReingestIdle /\ PollerIdle
NextChunk == NextChunkSteps
SpecChunk == InitSpecChunk /\ [][NextChunk]_vars

\* Ingestions and re-ingestions of emails and contacts.
InitSpecRag == ToolIdle /\ LoopIdle /\ StreamIdle /\ WFIdle /\ EvalIdle /\ ChunkIdle /\ InitRag /\ SearchIdle /\ ReingestIdle /\ PollerIdle
NextRag == NextRagSteps
SpecRag == InitSpecRag /\ [][NextRag]_vars

\* One searchRAG call on every small table.
InitSpecSearch == ToolIdle /\ LoopIdle /\ StreamIdle /\ WFIdle /\ EvalIdle /\ ChunkIdle /\ RagIdle /\ InitSearch /\ ReingestIdle /\ PollerIdle
NextSearch == NextSearchSteps
SpecSearch == InitSpecSearch /\ [][NextSearch]_vars

\* One re-ingestion of a stored source, statement by statement, with a reader.
InitSpecReingest == ToolIdle /\ LoopIdle /\ StreamIdle /\ WFIdle /\ EvalIdle /\ ChunkIdle /\ InitStored /\ SearchIdle /\ InitReingest /\ PollerIdle
NextReingest == NextReingestSteps
SpecReingest == InitSpecReingest /\ [][NextReingest]_vars

\* The poller, cycle after cycle, with mail arriving; the timer and the async
\* functions it starts keep running, so the poller's steps are taken fairly.
InitSpecPoller == ToolIdle /\ LoopIdle /\ StreamIdle /\ WFIdle /\ EvalIdle /\ ChunkIdle /\ RagIdle /\ SearchIdle /\ ReingestIdle /\ InitPoller
NextPoller ==
  \/ DeliverEmail
  \/ PollAllUsers
  \/ PollUserEmailsSync
  \/ CacheEmail
  \/ PollerCheckForTaskReply
  \/ PollUserEmailsReturn
  \/ PollAllUsersReturn
SpecPoller == InitSpecPoller /\ [][NextPoller]_vars
SpecPollerFair == SpecPoller /\ WF_vars(PollerProcess)

\* Workflow starts, poller resumes and cancellations running as concurrent flows.
InitSpecWF == ToolIdle /\ LoopIdle /\ StreamIdle /\ InitWF /\ EvalIdle /\ ChunkIdle /\ RagIdle /\ SearchIdle /\ ReingestIdle /\ PollerIdle
NextWF == NextWFSteps
SpecWF == InitSpecWF /\ [][NextWF]_vars

\* The same operations run one at a time: a single flow. Without overlap
\* executeStep is never entered at 'sent_request' or 'confirmed' (a start enters
\* at 'initial', a resume writes 'received_reply' first), so that case is absent.
NextSeq ==
  \/ StartMeetingScheduling(1)
  \/ CheckForTaskReply(1)
  \/ ResumeFromReply(1)
  \/ UpdateTaskWrite(1)
  \/ GetUpdatedTask(1)
  \/ StepSendRequest(1)
  \/ StepProcessReplyAndSchedule(1)
  \/ StepAddCRMNote(1)
  \/ StepSendConfirmation(1)
  \/ CancelTask(1)
SpecSeq == InitSpecWF /\ [][NextSeq]_vars

====
